---- MODULE Spec2Model ----
(***************************************************************************)
(* Model of the Palworld-Takaro bridge (src/unnamed/part_000): the control *)
(* channel socket, the request dispatcher handleTakaroRequest, the         *)
(* location lookup handleGetPlayerLocation with its two HTTP endpoints,    *)
(* and the player list fetch that fills playerCache.                       *)
(*                                                                         *)
(* Node runs every callback to completion on one event loop, so one action *)
(* is one event-loop task together with the promise continuations it       *)
(* triggers; a handler is split only at the awaits that wait for a timer   *)
(* or for the network (axios, setTimeout).                                 *)
(***************************************************************************)
EXTENDS Bags, FiniteSets, Integers, Sequences, TLC

\* ------------------------------------------------------------ bounds ----
MaxRequests == 2        \* request messages received in one behaviour of Spec
MaxLookupRequests == 3  \* the same, in one behaviour of LookupSpec
MaxTasks == 2           \* handlers suspended at the same time
MaxSockets == 2         \* sockets created in one behaviour
MaxResponses == 2       \* length cap of locationResponseQueue
TicksPerTimeout == 2    \* clock steps that make up the lookup timeout

\* -------------------------------------------------- program constants ---
LOCATION_TIMEOUT == 5000
POLL_INTERVAL == 100
MAX_RECONNECT_DELAY == 60000
BASE_RECONNECT_DELAY == 3000

TickMs == LOCATION_TIMEOUT \div TicksPerTimeout

\* ------------------------------------------------------- value domains --
Players == {"p1", "p2"}
Names == {"Aria"}
NoId == "none"
NoRecord == "norecord"
ReqIds == {"r1", "r2"}
NoPos == <<-1, -1, -1>>
Sentinel == <<0, 0, 0>>
Positions == {Sentinel, <<10, 20, 5>>}

\* Branches of the switch in handleTakaroRequest, one of each shape (the
\* other list* stubs are listBans again, the other REST getters are
\* getServerInfo again, banPlayer and unbanPlayer are kickPlayer again), and
\* one action that is not in the switch.
SyncActions == {"testReachability", "listBans"}
RestActions == {"getServerInfo"}
ArgRestActions == {"kickPlayer"}
KnownActions == SyncActions \cup RestActions \cup ArgRestActions
                  \cup {"getPlayers", "getPlayerLocation", "executeCommand"}
UnknownAction == "selfDestruct"
Actions == KnownActions \cup {UnknownAction}

\* args of a request: not given, a string that is not JSON, or an object.
\* command is the first word of args.command (handleExecuteCommand).
\* target of a teleport: another player, or x, y, z given in the args
Coordinates == "x,y,z"
Commands == {"help", "save", "location", "frobnicate"}
ArgsOf(action) ==
  IF action = "getPlayerLocation"
    THEN {[kind |-> k, gameId |-> NoId, command |-> ""] : k \in {"undefined", "badjson"}}
         \cup {[kind |-> "object", gameId |-> p, command |-> ""] : p \in Players \cup {NoId}}
  ELSE IF action \in ArgRestActions
    THEN {[kind |-> k, gameId |-> NoId, command |-> ""] : k \in {"undefined", "badjson"}}
         \cup {[kind |-> "object", gameId |-> p, command |-> ""] : p \in {"p1"}}
  ELSE IF action = "executeCommand"
    THEN {[kind |-> k, gameId |-> NoId, command |-> ""] : k \in {"undefined", "badjson"}}
         \cup {[kind |-> "object", gameId |-> NoId, command |-> c] : c \in Commands \ {"location"}}
         \cup {[kind |-> "object", gameId |-> p, command |-> "location"] : p \in Players}
  ELSE IF action = "teleportPlayer"
    THEN {[kind |-> "undefined", gameId |-> NoId, command |-> "", target |-> NoId]}
         \cup {[kind |-> "object", gameId |-> p, command |-> "", target |-> t] :
                 p \in {"p1", NoId}, t \in {Coordinates, "p2", NoId}}
  ELSE {[kind |-> "undefined", gameId |-> NoId, command |-> ""]}

\* ------------------------------------------------------------ payloads --
LocationPayload(pos) == [tag |-> "location", val |-> pos]
ErrorPayload(msg) == [tag |-> "error", val |-> msg]
ResultPayload(what) == [tag |-> "result", val |-> <<what>>]
NoPayload == [tag |-> "none", val |-> <<>>]

\* e.message of what JSON.parse / a property read of undefined throws
ExceptionMessage(args) ==
  IF args.kind = "badjson" THEN <<"SyntaxError: Unexpected token">>
  ELSE <<"TypeError: Cannot read properties of undefined">>

VARIABLES
  takaroWs,                 \* the current socket: [id, readyState]
  isConnectedToTakaro,
  reconnectTimeout,         \* the reconnect timer: [pending, exponentialDelay, jitter]
  reconnectAttempts,
  metrics,                  \* [requestsReceived, responsesSent, errors]
  playerCache,              \* gameId -> name, or NoRecord
  fetched,                  \* the player list the last successful fetch returned
  lastKnownPlayers,
  hasInitializedPlayerList,
  teleportQueue,
  locationRequestQueue,     \* pending list: <<[playerName, requestId]>>
  locationResponseQueue,    \* response list: <<[requestId, pos]>>
  activeLocationRequests,
  nextLocId,                \* stands for loc_<Date.now()>_<random>
  tasks,                    \* suspended handleTakaroRequest calls
  requestsSeen,             \* request messages received so far
  received,                 \* requestId -> requests that entered the switch
  answered,                 \* requestId -> calls of sendTakaroResponse
  sent,                     \* requestId -> responses put on the socket
  lastOut,                  \* the last message handed to the socket
  wire,                     \* what has gone out on the socket last written to
  REGISTRATION_TOKEN,       \* process.env.REGISTRATION_TOKEN || ''
  startup,                  \* the process: [pc, configFile, identityToken]
  pollCount,                \* ticks of the 10 s presence timer
  pollsInFlight,            \* presence polls waiting for GET /v1/api/players
  lastPoll,                 \* what the last presence poll saw and emitted
  relay,                    \* what the local HTTP endpoints have returned
  channel,                  \* inbound frames handled, pings and pongs so far
  chat                      \* POST /chat: events posted, dropped, awaiting a fetch

vars == <<takaroWs, isConnectedToTakaro, reconnectTimeout, reconnectAttempts,
          metrics, playerCache, fetched, lastKnownPlayers, hasInitializedPlayerList,
          teleportQueue, locationRequestQueue, locationResponseQueue,
          activeLocationRequests, nextLocId, tasks, requestsSeen, received,
          answered, sent, lastOut, wire, REGISTRATION_TOKEN, startup, pollCount,
          pollsInFlight, lastPoll, relay, channel, chat>>

connVars == <<takaroWs, isConnectedToTakaro, reconnectTimeout, reconnectAttempts>>
queueVars == <<teleportQueue, locationRequestQueue, locationResponseQueue,
               activeLocationRequests, nextLocId>>
presenceVars == <<lastKnownPlayers, hasInitializedPlayerList, pollCount,
                  pollsInFlight, lastPoll>>
hostVars == <<REGISTRATION_TOKEN, startup, relay, channel, chat>>
countVars == <<requestsSeen, received>>
outVars == <<answered, sent, lastOut, wire>>

Slots == 1..MaxTasks

Idle == [pc |-> "idle", requestId |-> "", action |-> "", ws |-> 0,
         playerId |-> NoId, target |-> NoId, locId |-> 0, elapsed |-> 0,
         sleepLeft |-> 0, posted |-> NoPos, seq |-> 0]

\* lastOut: type, requestId and payload are the message; transmitted says
\* whether sendToTakaro put it on the socket and ws on which one; action,
\* arrivedOn, locId, posted and thrown (the message of what the handler
\* threw, if it threw) describe the request a response answers, and seq
\* says the how-manieth request message that was
NoMsg == [type |-> "none", requestId |-> "", payload |-> NoPayload,
          transmitted |-> FALSE, ws |-> 0, action |-> "", arrivedOn |-> 0,
          locId |-> 0, subject |-> NoId, posted |-> NoPos, thrown |-> <<>>,
          seq |-> 0]

\* nothing has been written to any socket yet
NoWire == [ws |-> 0, first |-> "none", identifies |-> 0]

\* no reconnect timer has been armed yet (let reconnectTimeout = null)
NoTimer == [pending |-> 0, exponentialDelay |-> 0, jitter |-> 0]

\* no presence poll has reconciled yet: seq counts the runs of the
\* reconciliation block, snap is the set of ids the last run was given,
\* events the bag of events it handed to sendToTakaro, transmitted whether
\* the socket took them
NoPoll == [seq |-> 0, snap |-> {}, events |-> EmptyBag, transmitted |-> FALSE]

\* no GET has been served yet: teleports and requests are the bodies of
\* the last answers, polled says which endpoints have answered at all,
\* delivered collects every teleport ever returned
NoRelay == [teleports |-> <<>>, requests |-> <<>>, polled |-> {}, delivered |-> <<>>]

\* no frame other than a request or an identifyResponse has arrived yet:
\* frames counts them, pings and pongs the pings received and the pongs
\* handed to the socket, dropped the frames that were only logged, and
\* droppedAt the number of requests seen when the last one was dropped
NoChannel == [frames |-> 0, pings |-> 0, pongs |-> 0, dropped |-> 0, droppedAt |-> 0]

\* nothing has been posted to /chat yet: posts counts the player events
\* posted, dropped those that ended without an event being built, and
\* connecting holds the names of player_connect events awaiting the
\* player list
NoChat == [posts |-> 0, dropped |-> 0, connecting |-> {},
           last |-> [event |-> "none", name |-> ""]]

\* the environment: the token may be configured or left empty
IDENTITY_TOKEN == "identity-token"
RegistrationTokens == {"", "registration-token"}

Min(a, b) == IF a < b THEN a ELSE b
Max(a, b) == IF a > b THEN a ELSE b

\* variant: the last matching entry instead of the first
FindLastIndex(q, requestId) ==
  IF \E i \in 1..Len(q) : q[i].requestId = requestId
    THEN CHOOSE i \in 1..Len(q) :
           /\ q[i].requestId = requestId
           /\ \A j \in (i + 1)..Len(q) : q[j].requestId # requestId
    ELSE 0

\* Array.prototype.findIndex(r => r.requestId === requestId); 0 for -1
FindIndex(q, requestId) ==
  IF \E i \in 1..Len(q) : q[i].requestId = requestId
    THEN CHOOSE i \in 1..Len(q) :
           /\ q[i].requestId = requestId
           /\ \A j \in 1..(i - 1) : q[j].requestId # requestId
    ELSE 0

\* Array.prototype.splice(i, 1)
Splice(q, i) == SubSeq(q, 1, i - 1) \o SubSeq(q, i + 1, Len(q))

\* the module-level declarations, before anything has run
Declared ==
  /\ isConnectedToTakaro = FALSE
  /\ reconnectTimeout = NoTimer
  /\ reconnectAttempts = 0
  /\ metrics = [requestsReceived |-> 0, responsesSent |-> 0, errors |-> 0]
  /\ playerCache = [p \in Players |-> NoRecord]
  /\ lastKnownPlayers = {}
  /\ hasInitializedPlayerList = FALSE
  /\ teleportQueue = <<>>
  /\ locationRequestQueue = <<>>
  /\ locationResponseQueue = <<>>
  /\ activeLocationRequests = {}
  /\ nextLocId = 1
  /\ tasks = [s \in Slots |-> Idle]
  /\ requestsSeen = 0
  /\ received = [r \in ReqIds |-> 0]
  /\ answered = [r \in ReqIds |-> 0]
  /\ sent = [r \in ReqIds |-> 0]
  /\ lastOut = NoMsg
  /\ wire = NoWire
  /\ REGISTRATION_TOKEN \in RegistrationTokens
  /\ pollCount = 0
  /\ pollsInFlight = 0
  /\ lastPoll = NoPoll
  /\ relay = NoRelay
  /\ channel = NoChannel
  /\ chat = NoChat
  /\ fetched = [p \in Players |-> NoRecord]

\* the process once the module has run with TakaroConfig.txt and a token in
\* place: connectToTakaro() has created the first socket
Init ==
  /\ takaroWs = [id |-> 1, readyState |-> "CONNECTING"]
  /\ startup = [pc |-> "running", configFile |-> TRUE, identityToken |-> IDENTITY_TOKEN]
  /\ Declared

\* ------------------------------------------------- control channel -----
\* the socket written to is the current one; wire starts over when the
\* first message goes out on a new socket
Written(type) ==
  IF wire.ws = takaroWs.id
    THEN [wire EXCEPT !.identifies = @ + (IF type = "identify" THEN 1 ELSE 0)]
    ELSE [ws |-> takaroWs.id, first |-> type,
          identifies |-> IF type = "identify" THEN 1 ELSE 0]

\* the identify message: the identity token, and the registration token
\* when one is configured
IdentifyPayload ==
  [tag |-> "identify",
   val |-> IF REGISTRATION_TOKEN # ""
             THEN <<startup.identityToken, REGISTRATION_TOKEN>>
             ELSE <<startup.identityToken>>]

\* variant: an open handler that forgets the handshake
sendIdentifySkipped == UNCHANGED <<lastOut, wire>>

\* sendIdentify, called from the open handler: the socket is OPEN, the
\* message goes out with takaroWs.send
sendIdentify ==
  /\ lastOut' = [NoMsg EXCEPT !.type = "identify", !.payload = IdentifyPayload,
                                !.transmitted = TRUE, !.ws = takaroWs.id]
  /\ wire' = Written("identify")

\* takaroWs.on('open'): reset the counter, then sendIdentify on the socket
WsOpen ==
  /\ takaroWs.readyState = "CONNECTING"
  /\ takaroWs' = [takaroWs EXCEPT !.readyState = "OPEN"]
  /\ reconnectAttempts' = 0
  /\ sendIdentify
  /\ UNCHANGED <<isConnectedToTakaro, reconnectTimeout, metrics, playerCache, fetched,
                 presenceVars, hostVars, queueVars, tasks, countVars, answered, sent>>

RECURSIVE Pow2(_)
Pow2(n) == IF n <= 0 THEN 1 ELSE 2 * Pow2(n - 1)

\* variant: a backoff without the ceiling
ExponentialDelayUncapped(attempts) == BASE_RECONNECT_DELAY * Pow2(attempts - 1)

\* Math.min(BASE_RECONNECT_DELAY * Math.pow(2, attempts - 1), MAX_RECONNECT_DELAY)
ExponentialDelay(attempts) ==
  Min(BASE_RECONNECT_DELAY * Pow2(attempts - 1), MAX_RECONNECT_DELAY)

\* Math.random() * exponentialDelay * 0.25, with Math.random() given in
\* thousandths (0..999) and the result cut to whole milliseconds
Jitter(random, exponentialDelay) == (random * exponentialDelay) \div 4000

\* variant: a reconnect that does not count the attempt
scheduleReconnectUncounted(random) ==
  /\ reconnectAttempts' = reconnectAttempts
  /\ reconnectTimeout' =
       [pending |-> 1,
        exponentialDelay |-> ExponentialDelay(reconnectAttempts),
        jitter |-> Jitter(random, ExponentialDelay(reconnectAttempts))]

\* scheduleReconnect: clear the timer reconnectTimeout refers to, count the
\* attempt, arm a timer with the backoff delay plus jitter
scheduleReconnect(random) ==
  /\ reconnectAttempts' = reconnectAttempts + 1
  /\ LET cleared == Max(reconnectTimeout.pending - 1, 0)
         exponentialDelay == ExponentialDelay(reconnectAttempts + 1)
     IN reconnectTimeout' =
          [pending |-> cleared + 1,
           exponentialDelay |-> exponentialDelay,
           jitter |-> Jitter(random, exponentialDelay)]

\* variant: a close handler that leaves the Ready flag alone
MarkNotReadyForgotten == UNCHANGED isConnectedToTakaro

\* the close handler's first statement
MarkNotReady == isConnectedToTakaro' = FALSE

\* takaroWs.on('close'), after an open or after a failed attempt
WsClose(random) ==
  /\ takaroWs.readyState \in {"CONNECTING", "OPEN"}
  /\ takaroWs' = [takaroWs EXCEPT !.readyState = "CLOSED"]
  /\ MarkNotReady
  /\ scheduleReconnect(random)
  /\ UNCHANGED <<metrics, playerCache, fetched, presenceVars, hostVars, queueVars, tasks,
                 countVars, outVars>>

\* variant: connectToTakaro that gives up after a few failed attempts
connectToTakaroGivingUp ==
  IF takaroWs.readyState = "OPEN" \/ reconnectAttempts > 2
    THEN UNCHANGED takaroWs
    ELSE takaroWs' = [id |-> takaroWs.id + 1, readyState |-> "CONNECTING"]

\* connectToTakaro: nothing if the current socket is OPEN, else a new socket
connectToTakaro ==
  IF takaroWs.readyState = "OPEN"
    THEN UNCHANGED takaroWs
    ELSE takaroWs' = [id |-> takaroWs.id + 1, readyState |-> "CONNECTING"]

\* takaroWs.on('error'): the error is logged; the socket's close event
\* follows as an event of its own
WsError ==
  /\ takaroWs.readyState \in {"CONNECTING", "OPEN"}
  /\ UNCHANGED vars

\* variant: a timer that stays armed after it has fired (setInterval)
ReconnectInterval ==
  /\ reconnectTimeout.pending > 0
  /\ connectToTakaro
  /\ UNCHANGED <<isConnectedToTakaro, reconnectTimeout, reconnectAttempts, metrics,
                 playerCache, fetched, presenceVars, hostVars, queueVars, tasks,
                 countVars, outVars>>

\* the timer armed by scheduleReconnect fires
ReconnectTimer ==
  /\ reconnectTimeout.pending > 0
  /\ reconnectTimeout' = [reconnectTimeout EXCEPT !.pending = @ - 1]
  /\ connectToTakaro
  /\ UNCHANGED <<isConnectedToTakaro, reconnectAttempts, metrics, playerCache, fetched,
                 presenceVars, hostVars, queueVars, tasks, countVars, outVars>>

\* connectToTakaro() called by itself, in whatever state the connection is;
\* the socket it replaces is dropped from the model with its handlers
ConnectCall ==
  /\ connectToTakaro
  /\ UNCHANGED <<isConnectedToTakaro, reconnectTimeout, reconnectAttempts,
                 metrics, playerCache, fetched, presenceVars, hostVars, queueVars, tasks,
                 countVars, outVars>>

\* loadConfig: process.exit(1) when TakaroConfig.txt does not exist
loadConfig == IF startup.configFile THEN "running" ELSE "exited"

\* the module runs from top to bottom in one go: loadConfig(), the
\* declarations, then connectToTakaro(); nothing tests the tokens
Main ==
  /\ startup.pc = "module"
  /\ startup' = [startup EXCEPT !.pc = loadConfig]
  /\ IF loadConfig = "exited" THEN UNCHANGED takaroWs ELSE connectToTakaro
  /\ UNCHANGED <<isConnectedToTakaro, reconnectTimeout, reconnectAttempts,
                 metrics, playerCache, fetched, presenceVars, REGISTRATION_TOKEN,
                 relay, channel, chat, queueVars, tasks, countVars, outVars>>

\* variant: an identifyResponse that marks the connection Ready even when
\* it carries an error
handleIdentifyResponseAnyway(hasError) ==
  /\ takaroWs.readyState = "OPEN"
  /\ isConnectedToTakaro' = TRUE
  /\ UNCHANGED <<takaroWs, reconnectTimeout, reconnectAttempts, metrics,
                 playerCache, fetched, presenceVars, hostVars, queueVars, tasks, countVars, outVars>>

\* handleIdentifyResponse, for an identifyResponse message with or without
\* payload.error
handleIdentifyResponse(hasError) ==
  /\ takaroWs.readyState = "OPEN"
  /\ isConnectedToTakaro' = IF hasError THEN isConnectedToTakaro ELSE TRUE
  /\ UNCHANGED <<takaroWs, reconnectTimeout, reconnectAttempts, metrics,
                 playerCache, fetched, presenceVars, hostVars, queueVars, tasks, countVars, outVars>>

\* --------------------------------------------------------- dispatcher ---
\* variant: sendToTakaro without the readyState check
sendToTakaroUnchecked == TRUE

\* sendToTakaro returns true, and transmits, exactly when the current
\* socket is OPEN
sendToTakaro == takaroWs.readyState = "OPEN"

\* -------------------------------------------------- inbound frames -----
\* what the socket can deliver besides requests and identifyResponses:
\* text that is not JSON, JSON that is no object (null), and objects whose
\* type is connected, ping, error or something the switch does not know
UnknownType == "bogus"
MessageTypes == {"connected", "ping", "error", UnknownType}
Frames ==
  {[json |-> FALSE, object |-> FALSE, type |-> ""],
   [json |-> TRUE, object |-> FALSE, type |-> ""]}
  \cup {[json |-> TRUE, object |-> TRUE, type |-> t] : t \in MessageTypes}

\* JSON.parse(data.toString()) and message.type: a SyntaxError for text
\* that is not JSON, a TypeError for null, else the type
Parse(frame) ==
  IF ~frame.json THEN [thrown |-> "SyntaxError", type |-> ""]
  ELSE IF ~frame.object THEN [thrown |-> "TypeError", type |-> ""]
  ELSE [thrown |-> "", type |-> frame.type]

\* variant: a pong that is sent twice
sendPongTwice ==
  /\ lastOut' = [NoMsg EXCEPT !.type = "pong", !.ws = takaroWs.id,
                              !.transmitted = sendToTakaro]
  /\ wire' = IF sendToTakaro THEN Written("pong") ELSE wire
  /\ channel' = [channel EXCEPT !.frames = @ + 1, !.pings = @ + 1,
                                !.pongs = @ + (IF sendToTakaro
                                                 THEN 2 ELSE 0)]

\* sendPong: sendToTakaro({type: 'pong'}), which transmits on an OPEN socket
sendPong ==
  /\ lastOut' = [NoMsg EXCEPT !.type = "pong", !.ws = takaroWs.id,
                              !.transmitted = sendToTakaro]
  /\ wire' = IF sendToTakaro THEN Written("pong") ELSE wire
  /\ channel' = [channel EXCEPT !.frames = @ + 1, !.pings = @ + 1,
                                !.pongs = @ + (IF sendToTakaro
                                                 THEN 1 ELSE 0)]

\* the branches of handleTakaroMessage that only log: connected, error,
\* default
LoggedOnly == UNCHANGED isConnectedToTakaro

\* variant: a message callback without the try block: the exception
\* leaves the callback and ends the process, which the model shows as a
\* socket that is gone
CaughtUncaught ==
  /\ takaroWs' = [takaroWs EXCEPT !.readyState = "CLOSED"]
  /\ UNCHANGED metrics

\* the catch block of the message callback: count the error, log it
Caught ==
  /\ metrics' = [metrics EXCEPT !.errors = @ + 1]
  /\ UNCHANGED takaroWs

\* takaroWs.on('message') for one frame: parse, then handleTakaroMessage's
\* switch; requests and identifyResponses are the actions
\* handleTakaroRequest and handleIdentifyResponse
OnMessage(frame) ==
  /\ takaroWs.readyState = "OPEN"
  /\ LET message == Parse(frame)
         dropped == [channel EXCEPT !.frames = @ + 1, !.dropped = @ + 1,
                                    !.droppedAt = requestsSeen]
     IN CASE message.thrown # "" ->
               /\ Caught
               /\ channel' = dropped
               /\ UNCHANGED <<isConnectedToTakaro, lastOut, wire>>
          [] message.thrown = "" /\ message.type = "ping" ->
               /\ sendPong
               /\ UNCHANGED <<takaroWs, isConnectedToTakaro, metrics>>
          [] OTHER ->
               /\ LoggedOnly
               /\ channel' = IF message.type = UnknownType
                               THEN dropped
                               ELSE [channel EXCEPT !.frames = @ + 1]
               /\ UNCHANGED <<takaroWs, metrics, lastOut, wire>>
  /\ UNCHANGED <<reconnectTimeout, reconnectAttempts, playerCache, fetched, presenceVars,
                 REGISTRATION_TOKEN, startup, relay, chat, queueVars, tasks, countVars,
                 answered, sent>>

\* variant: a response that is sent from the catch block and again from
\* the last statement
sendTakaroResponseTwice(requestId, payload, m, about) ==
  /\ answered' = [answered EXCEPT ![requestId] = @ + 1]
  /\ sent' = IF sendToTakaro THEN [sent EXCEPT ![requestId] = @ + 2] ELSE sent
  /\ lastOut' = [about EXCEPT !.type = "response", !.requestId = requestId,
                              !.payload = payload, !.ws = takaroWs.id,
                              !.transmitted = sendToTakaro]
  /\ wire' = IF sendToTakaro THEN Written("response") ELSE wire
  /\ metrics' = IF sendToTakaro THEN [m EXCEPT !.responsesSent = @ + 2] ELSE m

\* sendTakaroResponse(requestId, payload), the last statement of
\* handleTakaroRequest; m is metrics as the handler left it, about the
\* answered request
sendTakaroResponse(requestId, payload, m, about) ==
  /\ answered' = [answered EXCEPT ![requestId] = @ + 1]
  /\ sent' = IF sendToTakaro THEN [sent EXCEPT ![requestId] = @ + 1] ELSE sent
  /\ lastOut' = [about EXCEPT !.type = "response", !.requestId = requestId,
                              !.payload = payload, !.ws = takaroWs.id,
                              !.transmitted = sendToTakaro]
  /\ wire' = IF sendToTakaro THEN Written("response") ELSE wire
  /\ metrics' = IF sendToTakaro THEN [m EXCEPT !.responsesSent = @ + 1] ELSE m

\* variant: a catch block that hides the exception's message
CatchPayloadGeneric(msg) == ErrorPayload(<<"Internal error">>)

\* the catch block of handleTakaroRequest
CatchPayload(msg) == ErrorPayload(msg)

\* variant: a default branch that does not name the action
UnknownActionPayloadNoName(action) == ErrorPayload(<<"Unknown action">>)

\* the default branch of the switch
UnknownActionPayload(action) == ErrorPayload(<<"Unknown action: ", action>>)

\* What the switch does with an action before anything is awaited on the
\* network: return a payload, throw, or suspend.
Outcome(action, args) ==
  IF action = "testReachability"
    THEN [kind |-> "return", payload |-> ResultPayload("connectable")]
  ELSE IF action \in SyncActions
    THEN [kind |-> "return", payload |-> ResultPayload("[]")]
  ELSE IF action \in RestActions
    THEN [kind |-> "suspend", pc |-> "rest"]
  ELSE IF action = "getPlayers"
    THEN [kind |-> "suspend", pc |-> "fetchPlayers"]
  ELSE IF action \in ArgRestActions
    THEN IF args.kind = "object"
           THEN [kind |-> "suspend", pc |-> "rest"]
           ELSE [kind |-> "throw", msg |-> ExceptionMessage(args)]
  ELSE IF action = "executeCommand"
    THEN IF args.kind # "object"
           THEN [kind |-> "throw", msg |-> ExceptionMessage(args)]
         ELSE IF args.command = "help"
           THEN [kind |-> "return", payload |-> ResultPayload("Available Commands")]
         ELSE IF args.command = "save"
           THEN [kind |-> "suspend", pc |-> "rest"]
         ELSE IF args.command = "location"
           THEN [kind |-> "lookup"]
         ELSE [kind |-> "return", payload |-> ResultPayload("Unknown command")]
  ELSE IF action = "getPlayerLocation"
    THEN [kind |-> "lookup"]
  ELSE IF action = "teleportPlayer"
    THEN IF args.kind # "object"
           THEN [kind |-> "throw", msg |-> ExceptionMessage(args)]
         ELSE IF args.gameId = NoId
           THEN [kind |-> "return", payload |-> ResultPayload("sourcePlayer is required")]
         ELSE IF args.target = NoId
           THEN [kind |-> "return", payload |-> ResultPayload("targetPlayer or coordinates required")]
         ELSE [kind |-> "teleport"]
  ELSE [kind |-> "return", payload |-> UnknownActionPayload(action)]

FreeSlot == CHOOSE s \in Slots : tasks[s].pc = "idle" /\ \A t \in 1..(s - 1) : tasks[t].pc # "idle"

\* ----------------------------------------------- handleTakaroRequest ---
\* the request a response answers
About(action, arrivedOn, locId, subject, posted, thrown) ==
  [NoMsg EXCEPT !.action = action, !.arrivedOn = arrivedOn, !.locId = locId,
                !.subject = subject, !.posted = posted, !.thrown = thrown]

\* the same for the request message that is being dispatched now, and for
\* the one a suspended handler was started for
Arriving(about) == [about EXCEPT !.seq = requestsSeen + 1]
Resumed(s, about) == [about EXCEPT !.seq = tasks[s].seq]

\* the 'location' console command wraps what handleGetPlayerLocation returns
LookupReply(action, pos) ==
  IF action = "executeCommand" /\ pos = Sentinel
    THEN ResultPayload("Unable to get location")
    ELSE LocationPayload(pos)

\* variant: handleGetPlayerLocation without the playerCache check
LookupShortCircuitsNoCacheCheck(args) ==
  \/ args.kind # "object"
  \/ args.gameId = NoId
  \/ args.gameId \in activeLocationRequests

\* variant: handleGetPlayerLocation without the activeLocationRequests check
LookupShortCircuitsNoActiveCheck(args) ==
  \/ args.kind # "object"
  \/ args.gameId = NoId
  \/ playerCache[args.gameId] = NoRecord

\* handleGetPlayerLocation returns the sentinel before it queues anything:
\* args unusable, no player id, a lookup already active, or no cache record
LookupShortCircuits(args) ==
  \/ args.kind # "object"
  \/ args.gameId = NoId
  \/ args.gameId \in activeLocationRequests
  \/ playerCache[args.gameId] = NoRecord

\* handleGetPlayerLocation from "Mark request as active" to the first sleep
\* of the wait loop; the response list cannot hold the fresh requestId yet
EnqueueLookup(s, requestId, action, args) ==
  /\ activeLocationRequests' = activeLocationRequests \cup {args.gameId}
  /\ locationRequestQueue' = Append(locationRequestQueue,
        [playerName |-> playerCache[args.gameId], requestId |-> nextLocId])
  /\ nextLocId' = nextLocId + 1
  /\ tasks' = [tasks EXCEPT ![s] =
        [pc |-> "locwait", requestId |-> requestId, action |-> action,
         ws |-> takaroWs.id, playerId |-> args.gameId, target |-> NoId,
         locId |-> nextLocId,
         elapsed |-> 0, sleepLeft |-> POLL_INTERVAL, posted |-> NoPos,
         seq |-> requestsSeen + 1]]

\* variant: a dispatcher that awaits each handler before it takes the
\* next request
CanStartWhenQuiet == \A s \in Slots : tasks[s].pc = "idle"

\* handleTakaroRequest(message) is called without await: a handler starts
\* whatever the others are doing (the model holds MaxTasks of them)
CanStart == \E s \in Slots : tasks[s].pc = "idle"

\* a request message whose payload is an object: the whole synchronous part
\* of handleTakaroRequest
handleTakaroRequest(requestId, action, args) ==
  /\ takaroWs.readyState = "OPEN"
  /\ CanStart
  /\ requestsSeen' = requestsSeen + 1
  /\ received' = [received EXCEPT ![requestId] = @ + 1]
  /\ LET m1 == [metrics EXCEPT !.requestsReceived = @ + 1]
         o == Outcome(action, args)
     IN CASE o.kind = "return" ->
               /\ sendTakaroResponse(requestId, o.payload, m1,
                                     Arriving(About(action, takaroWs.id, 0, NoId,
                                                    NoPos, <<>>)))
               /\ UNCHANGED <<tasks, queueVars>>
          [] o.kind = "throw" ->
               /\ sendTakaroResponse(requestId, CatchPayload(o.msg),
                                     [m1 EXCEPT !.errors = @ + 1],
                                     Arriving(About(action, takaroWs.id, 0, NoId,
                                                    NoPos, o.msg)))
               /\ UNCHANGED <<tasks, queueVars>>
          [] o.kind = "suspend" ->
               /\ tasks' = [tasks EXCEPT ![FreeSlot] =
                     [Idle EXCEPT !.pc = o.pc, !.requestId = requestId,
                                  !.action = action, !.ws = takaroWs.id,
                                  !.seq = requestsSeen + 1]]
               /\ metrics' = m1
               /\ UNCHANGED <<queueVars, outVars>>
          [] o.kind = "teleport" ->
               /\ tasks' = [tasks EXCEPT ![FreeSlot] =
                     [Idle EXCEPT !.pc = "teleportFetch", !.requestId = requestId,
                                  !.action = action, !.ws = takaroWs.id,
                                  !.playerId = args.gameId, !.target = args.target,
                                  !.seq = requestsSeen + 1]]
               /\ metrics' = m1
               /\ UNCHANGED <<queueVars, outVars>>
          [] o.kind = "lookup" ->
               IF LookupShortCircuits(args)
                 THEN /\ sendTakaroResponse(requestId, LookupReply(action, Sentinel), m1,
                                            Arriving(About(action, takaroWs.id, 0,
                                                  IF args.kind = "object"
                                                    THEN args.gameId ELSE NoId,
                                                  NoPos, <<>>)))
                      /\ UNCHANGED <<tasks, queueVars>>
                 ELSE /\ EnqueueLookup(FreeSlot, requestId, action, args)
                      /\ metrics' = m1
                      /\ UNCHANGED <<teleportQueue, locationResponseQueue, outVars>>
  /\ UNCHANGED <<connVars, playerCache, fetched, presenceVars, hostVars>>

\* a request message without a payload object: the destructuring in the
\* first lines of handleTakaroRequest throws before the try block, the
\* promise is rejected and nothing is counted or sent
RequestWithoutPayload(requestId) ==
  /\ takaroWs.readyState = "OPEN"
  /\ requestsSeen' = requestsSeen + 1
  /\ UNCHANGED <<connVars, metrics, playerCache, fetched, presenceVars, hostVars, queueVars, tasks,
                 received, outVars>>

\* the tail of handleTakaroRequest after the awaited handler has returned
FinishRequest(s, payload) ==
  /\ sendTakaroResponse(tasks[s].requestId, payload, metrics,
                        Resumed(s, About(tasks[s].action, tasks[s].ws, tasks[s].locId,
                                         tasks[s].playerId, tasks[s].posted, <<>>)))
  /\ tasks' = [tasks EXCEPT ![s] = Idle]

\* the axios call of a REST handler resolves or rejects; the handler's own
\* try/catch turns both into a returned value
RestDone(s, ok) ==
  /\ tasks[s].pc = "rest"
  /\ FinishRequest(s, ResultPayload(IF ok THEN "success" ELSE "failure"))
  /\ UNCHANGED <<connVars, playerCache, fetched, presenceVars, hostVars, queueVars, countVars>>

\* what GET /v1/api/players can answer: who is online, under which name
Snapshots == [Players -> Names \cup {NoRecord}]
Online(snap) == {p \in Players : snap[p] # NoRecord}

\* variant: the fetch returns the players without caching them
CachePlayersSkipped(snap) == playerCache

\* variant: a player already in the directory keeps the first record
CachePlayersOnce(snap) ==
  [p \in Players |-> IF playerCache[p] = NoRecord THEN snap[p] ELSE playerCache[p]]

\* "Always cache player data": playerCache.set for every listed player
CachePlayers(snap) ==
  [p \in Players |-> IF snap[p] # NoRecord THEN snap[p] ELSE playerCache[p]]

\* variant: the fetch of a getPlayers request takes the listed players for
\* the presence set as well
GetPlayersDoneDetecting(s, snap) ==
  /\ tasks[s].pc = "fetchPlayers"
  /\ playerCache' = CachePlayers(snap)
  /\ fetched' = snap
  /\ lastKnownPlayers' = IF isConnectedToTakaro THEN Online(snap) ELSE lastKnownPlayers
  /\ FinishRequest(s, [tag |-> "players", val |-> <<Online(snap)>>])
  /\ UNCHANGED <<connVars, hasInitializedPlayerList, pollCount, pollsInFlight,
                 lastPoll, hostVars, queueVars, countVars>>

\* handleGetPlayers() of a getPlayers request, after axios has answered
GetPlayersDone(s, snap) ==
  /\ tasks[s].pc = "fetchPlayers"
  /\ playerCache' = CachePlayers(snap)
  /\ fetched' = snap
  /\ FinishRequest(s, [tag |-> "players", val |-> <<Online(snap)>>])
  /\ UNCHANGED <<connVars, presenceVars, hostVars, queueVars, countVars>>

\* handleGetPlayers() when axios rejects: logs and returns []
GetPlayersFailed(s) ==
  /\ tasks[s].pc = "fetchPlayers"
  /\ FinishRequest(s, ResultPayload("[]"))
  /\ UNCHANGED <<connVars, playerCache, fetched, presenceVars, hostVars, queueVars, countVars>>

\* ------------------------------------------------ presence polling ------
\* the gameEvent message sendPlayerEvent builds for a player
PlayerEvent(eventType, gameId, name) ==
  [type |-> eventType, gameId |-> gameId, name |-> name]

\* variant: change detection on the very first poll as well
DetectsChangesAlways(initialized) == TRUE

\* "Only detect changes after first poll": if (hasInitializedPlayerList)
DetectsChanges(initialized) == initialized

\* variant: every listed player counts as having joined
NewPlayersAll(current, lastKnown) == current

\* the players of the snapshot with !lastKnownPlayers.has(player.gameId)
NewPlayers(current, lastKnown) == current \ lastKnown

\* the last known players with !currentPlayers.has(lastPlayerId)
GonePlayers(current, lastKnown) == lastKnown \ current

\* the events one reconciliation sends: player-connected for the new
\* players, under the name just cached, then player-disconnected for the
\* gone ones, under the cached name or else the id
PollEvents(snap, lastKnown, cache) ==
  SetToBag({PlayerEvent("player-connected", p, cache[p]) :
              p \in NewPlayers(Online(snap), lastKnown)})
  (+)
  SetToBag({PlayerEvent("player-disconnected", p,
                        IF cache[p] # NoRecord THEN cache[p] ELSE p) :
              p \in GonePlayers(Online(snap), lastKnown)})

\* the setInterval callback: count the tick; start handleGetPlayers(true)
\* when Ready, else skip
PollTimer ==
  /\ pollCount' = pollCount + 1
  /\ pollsInFlight' = IF isConnectedToTakaro THEN pollsInFlight + 1 ELSE pollsInFlight
  /\ UNCHANGED <<connVars, metrics, playerCache, fetched, lastKnownPlayers,
                 hasInitializedPlayerList, lastPoll, hostVars, queueVars, tasks,
                 countVars, outVars>>

\* handleGetPlayers(true) after axios has answered: cache the players; if
\* still Ready, reconcile (no events on the first run) and replace
\* lastKnownPlayers; the events go out through sendToTakaro one by one
PollDone(snap) ==
  /\ pollsInFlight > 0
  /\ pollsInFlight' = pollsInFlight - 1
  /\ playerCache' = CachePlayers(snap)
  /\ fetched' = snap
  /\ IF isConnectedToTakaro
       THEN LET events == IF DetectsChanges(hasInitializedPlayerList)
                            THEN PollEvents(snap, lastKnownPlayers, CachePlayers(snap))
                            ELSE EmptyBag
            IN /\ hasInitializedPlayerList' = TRUE
               /\ lastKnownPlayers' = Online(snap)
               /\ lastPoll' = [seq |-> lastPoll.seq + 1, snap |-> Online(snap),
                               events |-> events, transmitted |-> sendToTakaro]
               /\ IF events # EmptyBag
                    THEN /\ lastOut' = [NoMsg EXCEPT
                                          !.type = "gameEvent",
                                          !.payload = [tag |-> "events", val |-> <<events>>],
                                          !.transmitted = sendToTakaro,
                                          !.ws = takaroWs.id]
                         /\ wire' = IF sendToTakaro THEN Written("gameEvent") ELSE wire
                    ELSE UNCHANGED <<lastOut, wire>>
       ELSE UNCHANGED <<lastKnownPlayers, hasInitializedPlayerList, lastPoll,
                        lastOut, wire>>
  /\ UNCHANGED <<connVars, metrics, pollCount, hostVars, queueVars, tasks,
                 countVars, answered, sent>>

\* variant: a failed fetch taken for a player list with nobody in it
PollFailedAsEmpty ==
  /\ pollsInFlight > 0
  /\ pollsInFlight' = pollsInFlight - 1
  /\ IF isConnectedToTakaro
       THEN /\ hasInitializedPlayerList' = TRUE
            /\ lastKnownPlayers' = {}
       ELSE UNCHANGED <<lastKnownPlayers, hasInitializedPlayerList>>
  /\ UNCHANGED <<connVars, metrics, playerCache, fetched, pollCount, lastPoll,
                 hostVars, queueVars, tasks, countVars, outVars>>

\* handleGetPlayers(true) when axios rejects: logs and returns []
PollFailed ==
  /\ pollsInFlight > 0
  /\ pollsInFlight' = pollsInFlight - 1
  /\ UNCHANGED <<connVars, metrics, playerCache, fetched, lastKnownPlayers,
                 hasInitializedPlayerList, pollCount, lastPoll, hostVars,
                 queueVars, tasks, countVars, outVars>>

\* ------------------------------------------------ POST /chat ------------
\* the names the game script may post: a player's name as the game server
\* lists it, the same in another case, and a name nobody has
PostedNames == Names \cup {"aria", "Nobody"}

\* String.prototype.toLowerCase
ToLowerCase(name) ==
  CASE name = "Aria" -> "aria"
    [] name = "Bree" -> "bree"
    [] name = "Nobody" -> "nobody"
    [] OTHER -> name

\* variant: an event is built from the posted name when no record is found
PlayerRecordsOrPosted(playerName, gameId, cache) ==
  IF gameId # NoId
    THEN {[gameId |-> gameId,
           name |-> IF cache[gameId] # NoRecord THEN cache[gameId] ELSE playerName]}
    ELSE IF \E q \in Players : cache[q] = playerName
           THEN {[gameId |-> p, name |-> cache[p]] :
                   p \in {q \in Players : cache[q] = playerName}}
           ELSE {[gameId |-> NoId, name |-> playerName]}

\* the player sendPlayerEvent builds its event for: with a gameId the cached
\* record or else {name: playerName, gameId}; without one a cached record
\* with exactly that name (the first the Map yields, here any of them), or
\* none
PlayerRecords(playerName, gameId, cache) ==
  IF gameId # NoId
    THEN {[gameId |-> gameId,
           name |-> IF cache[gameId] # NoRecord THEN cache[gameId] ELSE playerName]}
    ELSE {[gameId |-> p, name |-> cache[p]] :
            p \in {q \in Players : cache[q] = playerName}}

\* one more post to /chat has been handled: the event it reported and the
\* name it gave
Posted(event, playerName) ==
  [chat EXCEPT !.posts = @ + 1, !.last = [event |-> event, name |-> playerName]]

\* the player_connect post for playerName has been handled
Connected(playerName) ==
  [Posted("player_connect", playerName) EXCEPT !.connecting = @ \ {playerName}]

\* sendPlayerEvent called from /chat: no player, no event; else the event
\* goes to sendToTakaro; handled is chat once the post has been handled
sendPlayerEvent(eventType, playerName, gameId, cache, handled) ==
  LET records == PlayerRecords(playerName, gameId, cache)
  IN IF records = {}
       THEN /\ chat' = [handled EXCEPT !.dropped = @ + 1]
            /\ UNCHANGED <<lastOut, wire>>
       ELSE \E player \in records :
              /\ chat' = handled
              /\ lastOut' = [NoMsg EXCEPT
                               !.type = "gameEvent",
                               !.payload =
                                 [tag |-> "events",
                                  val |-> <<SetToBag({PlayerEvent(eventType,
                                                                  player.gameId,
                                                                  player.name)})>>],
                               !.transmitted = sendToTakaro,
                               !.ws = takaroWs.id]
              /\ wire' = IF sendToTakaro THEN Written("gameEvent") ELSE wire

\* case 'player_death': sendPlayerEvent by name, when Ready
ChatDeath(playerName) ==
  /\ IF isConnectedToTakaro
       THEN sendPlayerEvent("player-death", playerName, NoId, playerCache,
                            Posted("player_death", playerName))
       ELSE /\ chat' = Posted("player_death", playerName)
            /\ UNCHANGED <<lastOut, wire>>
  /\ UNCHANGED <<connVars, metrics, playerCache, fetched, presenceVars, REGISTRATION_TOKEN, startup,
                 relay, channel, queueVars, tasks, countVars, answered, sent>>

\* case 'player_disconnect': the gameId of a cached player whose name is
\* the posted one but for case, then sendPlayerEvent, when Ready
ChatDisconnect(playerName) ==
  /\ IF isConnectedToTakaro
       THEN LET found == {p \in Players :
                           /\ playerCache[p] # NoRecord
                           /\ ToLowerCase(playerCache[p]) = ToLowerCase(playerName)}
            IN IF found = {}
                 THEN sendPlayerEvent("player-disconnected", playerName, NoId,
                                      playerCache,
                                      Posted("player_disconnect", playerName))
                 ELSE \E gameId \in found :
                        sendPlayerEvent("player-disconnected", playerName, gameId,
                                        playerCache,
                                        Posted("player_disconnect", playerName))
       ELSE /\ chat' = Posted("player_disconnect", playerName)
            /\ UNCHANGED <<lastOut, wire>>
  /\ UNCHANGED <<connVars, metrics, playerCache, fetched, presenceVars, REGISTRATION_TOKEN, startup,
                 relay, channel, queueVars, tasks, countVars, answered, sent>>

\* case 'player_connect' up to its await: when Ready, fetch the player list
ChatConnect(playerName) ==
  /\ playerName \notin chat.connecting
  /\ chat' = IF isConnectedToTakaro
               THEN [chat EXCEPT !.connecting = @ \cup {playerName}]
               ELSE Posted("player_connect", playerName)
  /\ UNCHANGED <<connVars, metrics, playerCache, fetched, presenceVars, REGISTRATION_TOKEN, startup,
                 relay, channel, queueVars, tasks, countVars, outVars>>

\* case 'player_connect' after handleGetPlayers() has returned the list:
\* the listed player whose name is the posted one but for case, if any
ChatConnectFetched(playerName, snap) ==
  /\ playerName \in chat.connecting
  /\ playerCache' = CachePlayers(snap)
  /\ fetched' = snap
  /\ LET found == {p \in Online(snap) : ToLowerCase(snap[p]) = ToLowerCase(playerName)}
     IN IF found = {}
          THEN /\ chat' = [Connected(playerName) EXCEPT !.dropped = @ + 1]
               /\ UNCHANGED <<lastOut, wire>>
          ELSE \E gameId \in found :
                 sendPlayerEvent("player-connected", snap[gameId], gameId,
                                 CachePlayers(snap),
                                 Connected(playerName))
  /\ UNCHANGED <<connVars, metrics, presenceVars, REGISTRATION_TOKEN, startup,
                 relay, channel, queueVars, tasks, countVars, answered, sent>>

\* case 'player_connect' when the fetch failed: handleGetPlayers returns [],
\* nobody is found
ChatConnectFetchFailed(playerName) ==
  /\ playerName \in chat.connecting
  /\ chat' = [Connected(playerName) EXCEPT !.dropped = @ + 1]
  /\ UNCHANGED <<connVars, metrics, playerCache, fetched, presenceVars, REGISTRATION_TOKEN, startup,
                 relay, channel, queueVars, tasks, countVars, outVars>>

\* ------------------------------------------------ handleTeleportPlayer --
\* the teleport request pushed for source and target; timestamp is the
\* number of the enqueue (new Date().toISOString() grows with every push)
TeleportRequest(sourceName, targetName) ==
  [sourcePlayer |-> sourceName, target |-> targetName,
   timestamp |-> Len(relay.delivered) + Len(teleportQueue) + 1]

\* variant: the teleport is pushed as soon as the source is found, before
\* the target is looked for
TeleportFetchedEager(s, snap) ==
  /\ tasks[s].pc = "teleportFetch"
  /\ playerCache' = CachePlayers(snap)
  /\ fetched' = snap
  /\ IF snap[tasks[s].playerId] = NoRecord
       THEN /\ FinishRequest(s, ResultPayload("Source player not found online"))
            /\ UNCHANGED teleportQueue
     ELSE IF tasks[s].target = Coordinates
       THEN /\ teleportQueue' = Append(teleportQueue,
                   TeleportRequest(snap[tasks[s].playerId], Coordinates))
            /\ FinishRequest(s, ResultPayload("Teleporting to coordinates"))
     ELSE /\ teleportQueue' = Append(teleportQueue,
                 TeleportRequest(snap[tasks[s].playerId], tasks[s].target))
          /\ FinishRequest(s, IF snap[tasks[s].target] = NoRecord
                                THEN ResultPayload("Target player not found online")
                                ELSE ResultPayload("Teleporting to player"))
  /\ UNCHANGED <<connVars, presenceVars, hostVars, locationRequestQueue,
                 locationResponseQueue, activeLocationRequests, nextLocId, countVars>>

\* handleTeleportPlayer after its handleGetPlayers() has answered with snap
\* (players are told by gameId): source or target not online ends it with
\* success false, otherwise one teleport is pushed
TeleportFetched(s, snap) ==
  /\ tasks[s].pc = "teleportFetch"
  /\ playerCache' = CachePlayers(snap)
  /\ fetched' = snap
  /\ IF snap[tasks[s].playerId] = NoRecord
       THEN /\ FinishRequest(s, ResultPayload("Source player not found online"))
            /\ UNCHANGED teleportQueue
     ELSE IF tasks[s].target = Coordinates
       THEN /\ teleportQueue' = Append(teleportQueue,
                   TeleportRequest(snap[tasks[s].playerId], Coordinates))
            /\ FinishRequest(s, ResultPayload("Teleporting to coordinates"))
     ELSE IF snap[tasks[s].target] = NoRecord
       THEN /\ FinishRequest(s, ResultPayload("Target player not found online"))
            /\ UNCHANGED teleportQueue
     ELSE /\ teleportQueue' = Append(teleportQueue,
                 TeleportRequest(snap[tasks[s].playerId], snap[tasks[s].target]))
          /\ FinishRequest(s, ResultPayload("Teleporting to player"))
  /\ UNCHANGED <<connVars, presenceVars, hostVars, locationRequestQueue,
                 locationResponseQueue, activeLocationRequests, nextLocId, countVars>>

\* the same when the fetch fails: handleGetPlayers returns [], so the
\* source is not found
TeleportFetchFailed(s) ==
  /\ tasks[s].pc = "teleportFetch"
  /\ FinishRequest(s, ResultPayload("Source player not found online"))
  /\ UNCHANGED <<connVars, playerCache, fetched, presenceVars, hostVars, queueVars, countVars>>

\* ------------------------------------- handleGetPlayerLocation: wait ---
\* variant: a loop condition that never sees the deadline
WithinTimeoutAlways(t) == TRUE

\* the loop condition: Date.now() - startTime < timeout
WithinTimeout(t) == t.elapsed < LOCATION_TIMEOUT

\* variant: the pending entry is looked up but never spliced out
RemovePendingForgotten(q, requestId) == q

\* findIndex + splice(queueIndex, 1) on locationRequestQueue
RemovePending(q, requestId) ==
  IF FindIndex(q, requestId) # 0 THEN Splice(q, FindIndex(q, requestId)) ELSE q

\* the 100 ms sleep is over, the deadline is not, and the response list has
\* an entry with this lookup's requestId: take it, clean up, return it
LookupMatch(s) ==
  /\ tasks[s].pc = "locwait"
  /\ tasks[s].sleepLeft = 0
  /\ WithinTimeout(tasks[s])
  /\ FindIndex(locationResponseQueue, tasks[s].locId) # 0
  /\ LET i == FindIndex(locationResponseQueue, tasks[s].locId)
         response == locationResponseQueue[i]
     IN /\ locationResponseQueue' = Splice(locationResponseQueue, i)
        /\ activeLocationRequests' = activeLocationRequests \ {tasks[s].playerId}
        /\ locationRequestQueue' = RemovePending(locationRequestQueue, tasks[s].locId)
        /\ FinishRequest(s, LookupReply(tasks[s].action, response.pos))
  /\ UNCHANGED <<connVars, playerCache, fetched, presenceVars, hostVars, teleportQueue, nextLocId,
                 countVars>>

\* the sleep is over, the deadline is not, no entry matches: sleep again
LookupSleep(s) ==
  /\ tasks[s].pc = "locwait"
  /\ tasks[s].sleepLeft = 0
  /\ WithinTimeout(tasks[s])
  /\ FindIndex(locationResponseQueue, tasks[s].locId) = 0
  /\ tasks' = [tasks EXCEPT ![s].sleepLeft = POLL_INTERVAL]
  /\ UNCHANGED <<connVars, metrics, playerCache, fetched, presenceVars, hostVars, queueVars,
                 countVars, outVars>>

\* the sleep is over and so is the deadline: the loop ends without looking
\* at the response list; clean up and return the sentinel
LookupTimeout(s) ==
  /\ tasks[s].pc = "locwait"
  /\ tasks[s].sleepLeft = 0
  /\ ~WithinTimeout(tasks[s])
  /\ activeLocationRequests' = activeLocationRequests \ {tasks[s].playerId}
  /\ locationRequestQueue' = RemovePending(locationRequestQueue, tasks[s].locId)
  /\ FinishRequest(s, LookupReply(tasks[s].action, Sentinel))
  /\ UNCHANGED <<connVars, playerCache, fetched, presenceVars, hostVars, teleportQueue,
                 locationResponseQueue, nextLocId, countVars>>

\* time passes for every waiting lookup: Date.now() grows, setTimeout runs
\* down (elapsed is kept only up to the timeout, where the loop stops
\* caring)
Tick ==
  /\ \E s \in Slots : /\ tasks[s].pc = "locwait"
                      /\ (tasks[s].elapsed < LOCATION_TIMEOUT \/ tasks[s].sleepLeft > 0)
  /\ tasks' = [s \in Slots |->
        IF tasks[s].pc = "locwait"
          THEN [tasks[s] EXCEPT
                  !.elapsed = Min(@ + TickMs, LOCATION_TIMEOUT),
                  !.sleepLeft = Max(@ - TickMs, 0)]
          ELSE tasks[s]]
  /\ UNCHANGED <<connVars, metrics, playerCache, fetched, presenceVars, hostVars, queueVars,
                 countVars, outVars>>

\* ------------------------------------------------ local HTTP endpoints --
\* POST /location-response: push the body onto locationResponseQueue.  The
\* consumer can name any requestId it has seen in a poll, or none (0).
\* posted remembers the first response posted for a lookup while it waits
\* and its deadline has not passed.
PostLocationResponse(requestId, pos) ==
  /\ Len(locationResponseQueue) < MaxResponses
  /\ locationResponseQueue' = Append(locationResponseQueue,
                                     [requestId |-> requestId, pos |-> pos])
  /\ tasks' = [s \in Slots |->
        IF /\ tasks[s].pc = "locwait"
           /\ tasks[s].locId = requestId
           /\ tasks[s].elapsed < LOCATION_TIMEOUT
           /\ tasks[s].posted = NoPos
          THEN [tasks[s] EXCEPT !.posted = pos]
          ELSE tasks[s]]
  /\ UNCHANGED <<connVars, metrics, playerCache, fetched, presenceVars, hostVars, teleportQueue,
                 locationRequestQueue, activeLocationRequests, nextLocId,
                 countVars, outVars>>

\* variant: a location poll that pops like the teleport poll
GetLocationQueueClearing ==
  /\ relay' = [relay EXCEPT !.requests = locationRequestQueue,
                            !.polled = @ \cup {"location-queue"}]
  /\ locationRequestQueue' = <<>>
  /\ UNCHANGED <<connVars, metrics, playerCache, fetched, presenceVars, REGISTRATION_TOKEN, startup, channel, chat,
                 teleportQueue, locationResponseQueue, activeLocationRequests,
                 nextLocId, tasks, countVars, outVars>>

\* GET /location-queue: answer {requests: [...locationRequestQueue]}
GetLocationQueue ==
  /\ relay' = [relay EXCEPT !.requests = locationRequestQueue,
                            !.polled = @ \cup {"location-queue"}]
  /\ UNCHANGED <<connVars, metrics, playerCache, fetched, presenceVars, REGISTRATION_TOKEN, startup, channel, chat,
                 queueVars, tasks, countVars, outVars>>

\* variant: a teleport poll that peeks like the location poll
GetTeleportQueueKeeping ==
  /\ relay' = [relay EXCEPT !.teleports = teleportQueue,
                            !.polled = @ \cup {"teleport-queue"},
                            !.delivered = @ \o teleportQueue]
  /\ UNCHANGED <<connVars, metrics, playerCache, fetched, presenceVars, REGISTRATION_TOKEN, startup, channel, chat,
                 queueVars, tasks, countVars, outVars>>

\* GET /teleport-queue: answer {teleports: [...teleportQueue]} and set
\* teleportQueue.length = 0
GetTeleportQueue ==
  /\ relay' = [relay EXCEPT !.teleports = teleportQueue,
                            !.polled = @ \cup {"teleport-queue"},
                            !.delivered = @ \o teleportQueue]
  /\ teleportQueue' = <<>>
  /\ UNCHANGED <<connVars, metrics, playerCache, fetched, presenceVars, REGISTRATION_TOKEN, startup, channel, chat,
                 locationRequestQueue, locationResponseQueue, activeLocationRequests,
                 nextLocId, tasks, countVars, outVars>>

\* ----------------------------------------------------- specification ----
\* Math.random() in thousandths; Spec and LookupSpec do not look at the
\* delay and take the one sample without jitter
Randoms == {0, 500, 999}
NoJitter == 0

ConnectionNext ==
  \/ WsOpen
  \/ WsClose(NoJitter)
  \/ takaroWs.id < MaxSockets /\ ReconnectTimer
  \/ \E hasError \in BOOLEAN : handleIdentifyResponse(hasError)

DispatchNext ==
  \/ /\ requestsSeen < MaxRequests
     /\ \E requestId \in ReqIds, action \in Actions :
          \E args \in ArgsOf(action) : handleTakaroRequest(requestId, action, args)
  \/ /\ requestsSeen < MaxRequests
     /\ \E requestId \in ReqIds : RequestWithoutPayload(requestId)
  \/ \E s \in Slots, ok \in BOOLEAN : RestDone(s, ok)
  \/ \E s \in Slots, snap \in Snapshots : GetPlayersDone(s, snap)
  \/ \E s \in Slots : GetPlayersFailed(s)

\* one turn of the wait loop of the lookup in slot s, when its sleep is over
LookupWake(s) == LookupMatch(s) \/ LookupSleep(s) \/ LookupTimeout(s)

WaitNext ==
  \/ \E s \in Slots : LookupMatch(s)
  \/ \E s \in Slots : LookupSleep(s)
  \/ \E s \in Slots : LookupTimeout(s)
  \/ Tick

\* A consumer that answers a pending request it has polled, once.
AnswerPosition == <<10, 20, 5>>
ConsumerAnswers ==
  \E s \in Slots :
    /\ tasks[s].pc = "locwait"
    /\ FindIndex(locationResponseQueue, tasks[s].locId) = 0
    /\ PostLocationResponse(tasks[s].locId, AnswerPosition)

\* A consumer that posts whatever it likes, whenever it likes.
ConsumerPosts ==
  \E requestId \in 0..(nextLocId - 1), pos \in Positions :
    PostLocationResponse(requestId, pos)

\* The bridge on its control channel, with every kind of request, next to a
\* consumer that answers lookups properly or not at all.
Next == ConnectionNext \/ DispatchNext \/ WaitNext \/ ConsumerAnswers

Spec == Init /\ [][Next]_vars

\* The lookup and its two queues next to an arbitrary consumer, on one
\* socket that opens and may close, with the requests that matter to it:
\* the player list fetch that fills playerCache, the lookup, and an action
\* that has no handler.
LookupRequestId == "r1"
LookupNext ==
  \/ WsOpen
  \/ WsClose(NoJitter)
  \/ /\ requestsSeen < MaxLookupRequests
     /\ \E action \in {"getPlayers", "getPlayerLocation", UnknownAction} :
          \E args \in ArgsOf(action) : handleTakaroRequest(LookupRequestId, action, args)
  \/ \E s \in Slots, snap \in Snapshots : GetPlayersDone(s, snap)
  \/ \E s \in Slots : GetPlayersFailed(s)
  \/ WaitNext
  \/ ConsumerPosts

LookupSpec == Init /\ [][LookupNext]_vars

\* Time passes and a setTimeout callback that is due runs: the event loop
\* guarantees both.  Nothing is assumed of the socket, of the control plane
\* or of the polling consumer.
TimerFairness ==
  /\ WF_vars(Tick)
  /\ \A s \in Slots : WF_vars(LookupWake(s))

\* In addition every axios call settles (resolves or rejects).
NetworkFairness ==
  \A s \in Slots :
    WF_vars((\E ok \in BOOLEAN : RestDone(s, ok))
            \/ (\E snap \in Snapshots : GetPlayersDone(s, snap))
            \/ GetPlayersFailed(s))

\* The two queues of the local relay next to a consumer that polls both
\* endpoints and answers the lookups it has polled: on one socket, with
\* the player list fetch, the lookup and the teleport.
MaxRelayRequests == 3
PolledRequests == {relay.requests[i].requestId : i \in 1..Len(relay.requests)}
ConsumerAnswersPolled ==
  \E requestId \in PolledRequests :
    /\ FindIndex(locationResponseQueue, requestId) = 0
    /\ PostLocationResponse(requestId, AnswerPosition)
RelayNext ==
  \/ WsOpen
  \/ /\ requestsSeen < MaxRelayRequests
     /\ \E action \in {"getPlayers", "getPlayerLocation", "teleportPlayer"} :
          \E args \in ArgsOf(action) : handleTakaroRequest(LookupRequestId, action, args)
  \/ \E s \in Slots, snap \in Snapshots : GetPlayersDone(s, snap)
  \/ \E s \in Slots, snap \in Snapshots : TeleportFetched(s, snap)
  \/ \E s \in Slots : TeleportFetchFailed(s)
  \/ WaitNext
  \/ GetLocationQueue
  \/ GetTeleportQueue
  \/ ConsumerAnswersPolled

RelaySpec == Init /\ [][RelayNext]_vars

\* the presence reconciler next to the connection: the 10 s timer, the
\* answers of the game server's player list, and a socket that opens,
\* identifies, closes and reconnects
MaxPolls == 3
PresenceNext ==
  \/ WsOpen
  \/ WsClose(NoJitter)
  \/ (takaroWs.id < MaxSockets /\ ReconnectTimer)
  \/ \E hasError \in BOOLEAN : handleIdentifyResponse(hasError)
  \/ (pollCount < MaxPolls /\ PollTimer)
  \/ \E snap \in Snapshots : PollDone(snap)
  \/ PollFailed
PresenceSpec == Init /\ [][PresenceNext]_vars

\* the control channel's inbound side: frames of every kind arrive on open
\* sockets, between handshakes and requests
MaxFrames == 3
MessageNext ==
  \/ WsOpen
  \/ WsClose(NoJitter)
  \/ (takaroWs.id < MaxSockets /\ ReconnectTimer)
  \/ \E hasError \in BOOLEAN : handleIdentifyResponse(hasError)
  \/ (channel.frames < MaxFrames /\ \E frame \in Frames : OnMessage(frame))
  \/ (requestsSeen < MaxRequests /\
        \E args \in ArgsOf("testReachability") :
          handleTakaroRequest(LookupRequestId, "testReachability", args))
MessageSpec == Init /\ [][MessageNext]_vars

\* player events from both sources: the presence poll and the game
\* script's posts to /chat, with the socket opening, identifying, closing
\* and reconnecting
MaxChatPosts == 2
ChatNext ==
  \/ WsOpen
  \/ WsClose(NoJitter)
  \/ (takaroWs.id < MaxSockets /\ ReconnectTimer)
  \/ \E hasError \in BOOLEAN : handleIdentifyResponse(hasError)
  \/ (pollCount < MaxPolls /\ PollTimer)
  \/ \E snap \in Snapshots : PollDone(snap)
  \/ PollFailed
  \/ /\ chat.posts + Cardinality(chat.connecting) < MaxChatPosts
     /\ \E playerName \in PostedNames :
          ChatDeath(playerName) \/ ChatDisconnect(playerName) \/ ChatConnect(playerName)
  \/ \E playerName \in PostedNames, snap \in Snapshots :
       ChatConnectFetched(playerName, snap)
  \/ \E playerName \in PostedNames : ChatConnectFetchFailed(playerName)
ChatSpec == Init /\ [][ChatNext]_vars

\* The player directory under every fetch that fills it, with player lists
\* in which a player may come back under another name: the presence poll,
\* the getPlayers request and the connect post, on one socket.
DirectoryNames == Names \cup {"Bree"}
DirectorySnapshots == [Players -> DirectoryNames \cup {NoRecord}]
DirectoryNext ==
  \/ WsOpen
  \/ \E hasError \in BOOLEAN : handleIdentifyResponse(hasError)
  \/ /\ requestsSeen < MaxRequests
     /\ \E args \in ArgsOf("getPlayers") :
          handleTakaroRequest(LookupRequestId, "getPlayers", args)
  \/ \E s \in Slots, snap \in DirectorySnapshots : GetPlayersDone(s, snap)
  \/ \E s \in Slots : GetPlayersFailed(s)
  \/ (pollCount < MaxPolls /\ PollTimer)
  \/ \E snap \in DirectorySnapshots : PollDone(snap)
  \/ PollFailed
  \/ /\ chat.posts + Cardinality(chat.connecting) < 1
     /\ \E playerName \in PostedNames : ChatConnect(playerName)
  \/ \E playerName \in PostedNames, snap \in DirectorySnapshots :
       ChatConnectFetched(playerName, snap)
  \/ \E playerName \in PostedNames : ChatConnectFetchFailed(playerName)
DirectorySpec == Init /\ [][DirectoryNext]_vars

\* The presence reconciler next to the other callers of handleGetPlayers:
\* the 10 s poll, the getPlayers and teleportPlayer requests and the connect
\* post, on one socket.
FrameNext ==
  \/ WsOpen
  \/ \E hasError \in BOOLEAN : handleIdentifyResponse(hasError)
  \/ /\ requestsSeen < MaxRequests
     /\ \E action \in {"getPlayers", "teleportPlayer"} :
          \E args \in ArgsOf(action) : handleTakaroRequest(LookupRequestId, action, args)
  \/ \E s \in Slots, snap \in Snapshots : GetPlayersDone(s, snap)
  \/ \E s \in Slots : GetPlayersFailed(s)
  \/ \E s \in Slots, snap \in Snapshots : TeleportFetched(s, snap)
  \/ \E s \in Slots : TeleportFetchFailed(s)
  \/ (pollCount < MaxPolls /\ PollTimer)
  \/ \E snap \in Snapshots : PollDone(snap)
  \/ PollFailed
  \/ /\ chat.posts + Cardinality(chat.connecting) < 1
     /\ \E playerName \in PostedNames : ChatConnect(playerName)
  \/ \E playerName \in PostedNames, snap \in Snapshots :
       ChatConnectFetched(playerName, snap)
  \/ \E playerName \in PostedNames : ChatConnectFetchFailed(playerName)
FrameSpec == Init /\ [][FrameNext]_vars

\* the connection on its own, through enough failed attempts in a row for
\* the backoff to reach its ceiling, with requests answered on open sockets
MaxReconnectSockets == 8
ReconnectNext ==
  \/ WsOpen
  \/ (takaroWs.id < MaxReconnectSockets /\ \E random \in Randoms : WsClose(random))
  \/ ReconnectTimer
  \/ \E hasError \in BOOLEAN : handleIdentifyResponse(hasError)
  \/ (requestsSeen < MaxRequests /\
        \E args \in ArgsOf("testReachability") :
          handleTakaroRequest(LookupRequestId, "testReachability", args))
ReconnectSpec == Init /\ [][ReconnectNext]_vars

\* the same with the socket's error events
SocketNext == ReconnectNext \/ WsError
SocketSpec == Init /\ [][SocketNext]_vars

\* connectToTakaro as an operation of its own: besides the program's two
\* call sites (startup, the reconnect timer) it is called at any moment
ConnectCallNext ==
  \/ WsOpen
  \/ (takaroWs.id < MaxReconnectSockets /\ \E random \in Randoms : WsClose(random))
  \/ (takaroWs.id < MaxReconnectSockets /\ ReconnectTimer)
  \/ (takaroWs.id < MaxReconnectSockets /\ ConnectCall)
  \/ \E hasError \in BOOLEAN : handleIdentifyResponse(hasError)
ConnectCallSpec == Init /\ [][ConnectCallNext]_vars

\* The process from its start: the module has not run yet, TakaroConfig.txt
\* may be missing and the identity token may be empty (process.env.
\* IDENTITY_TOKEN || ''); once the module has run, the connection lives as
\* it does elsewhere.  A process that has exited runs nothing.
StartupInit ==
  /\ takaroWs = [id |-> 0, readyState |-> "CLOSED"]
  /\ startup \in {[pc |-> "module", configFile |-> f, identityToken |-> t] :
                    f \in BOOLEAN, t \in {"", IDENTITY_TOKEN}}
  /\ Declared
StartupNext ==
  \/ Main
  \/ /\ startup.pc = "running"
     /\ \/ WsOpen
        \/ (takaroWs.id < MaxReconnectSockets /\ \E random \in Randoms : WsClose(random))
        \/ (takaroWs.id < MaxReconnectSockets /\ ReconnectTimer)
        \/ \E hasError \in BOOLEAN : handleIdentifyResponse(hasError)
StartupSpec == StartupInit /\ [][StartupNext]_vars

\* setTimeout callbacks run: a reconnect timer that is armed fires
ReconnectFairness == WF_vars(ReconnectTimer)
ReconnectFairSpec == ReconnectSpec /\ ReconnectFairness

FairSpec == Spec /\ TimerFairness /\ NetworkFairness
LookupTimerSpec == LookupSpec /\ TimerFairness

\* ------------------------------------------------------------ claims ---
\* handlers of requests with this requestId that have not returned yet
Busy(r) == Cardinality({s \in Slots : tasks[s].pc # "idle" /\ tasks[s].requestId = r})

LookupActions == {"getPlayerLocation", "executeCommand"}

RECURSIVE SumOver(_, _)
SumOver(f, S) == IF S = {} THEN 0
                 ELSE LET x == CHOOSE y \in S : TRUE IN f[x] + SumOver(f, S \ {x})

\* C2: no request is answered twice and no response is made up: for every
\* requestId the responses sent never outnumber the requests received whose
\* handler has returned, metrics.responsesSent counts exactly those
\* responses, and a response carries the requestId of a received request.
C2_AtMostOneResponse ==
  /\ \A r \in ReqIds : sent[r] + Busy(r) <= received[r]
  /\ metrics.responsesSent = SumOver(sent, ReqIds)
  /\ lastOut.type = "response" => received[lastOut.requestId] > 0

\* two requests came with one requestId and each got its response
C2_Witness == \E r \in ReqIds : received[r] = 2 /\ sent[r] = 2

\* C3: when the handler of a request throws, that step answers the request
\* with {error: <the exception's message>}, counts one error, and changes
\* neither the suspended handlers, nor the connection, nor the queues.
C3_ThrowBecomesErrorResponse ==
  [][\A r \in ReqIds, a \in Actions : \A args \in ArgsOf(a) :
       (Outcome(a, args).kind = "throw" /\ handleTakaroRequest(r, a, args)) =>
          /\ lastOut'.type = "response"
          /\ lastOut'.requestId = r
          /\ lastOut'.payload = ErrorPayload(ExceptionMessage(args))
          /\ lastOut'.transmitted
          /\ metrics'.errors = metrics.errors + 1
          /\ tasks' = tasks
          /\ UNCHANGED <<connVars, queueVars, playerCache, fetched, presenceVars>>]_vars

\* a handler threw, and a request that came after it was answered
C3_Witness ==
  /\ metrics.errors = 1
  /\ requestsSeen = 2
  /\ lastOut.type = "response"
  /\ lastOut.thrown = <<>>
  /\ lastOut.transmitted

\* C4: a request whose action is not in the switch is answered with
\* {error: "Unknown action: <action>"} and runs no handler: no error is
\* counted, no handler is suspended, and the teleport queue, the pending and
\* response lists, the in-flight set, the player cache and the presence set
\* stay as they were.
C4_UnknownActionAnswered ==
  [][\A r \in ReqIds : \A args \in ArgsOf(UnknownAction) :
       handleTakaroRequest(r, UnknownAction, args) =>
          /\ lastOut'.type = "response"
          /\ lastOut'.requestId = r
          /\ lastOut'.payload = ErrorPayload(<<"Unknown action: ", UnknownAction>>)
          /\ metrics'.errors = metrics.errors
          /\ tasks' = tasks
          /\ UNCHANGED <<teleportQueue, locationRequestQueue, locationResponseQueue,
                         activeLocationRequests, playerCache, fetched, lastKnownPlayers>>]_vars

\* an unknown action was answered while a lookup was pending and the
\* response list was not empty
C4_Witness ==
  /\ lastOut.type = "response"
  /\ lastOut.action = UnknownAction
  /\ lastOut.transmitted
  /\ Len(locationRequestQueue) > 0
  /\ Len(locationResponseQueue) > 0
  /\ activeLocationRequests # {}

\* a lookup in slot s returns in this step
LookupReturns(s) == tasks[s].pc = "locwait" /\ tasks'[s].pc = "idle"

\* C5: a lookup for which no response was posted before its deadline returns
\* at the deadline with the sentinel {0,0,0}; after it the pending list has
\* no entry with its requestId and its subject is not in flight.
C5_TimeoutReturnsSentinel ==
  [][\A s \in Slots : (LookupReturns(s) /\ tasks[s].posted = NoPos) =>
       /\ tasks[s].elapsed >= LOCATION_TIMEOUT
       /\ lastOut'.type = "response"
       /\ lastOut'.locId = tasks[s].locId
       /\ lastOut'.payload = LookupReply(tasks[s].action, Sentinel)
       /\ FindIndex(locationRequestQueue', tasks[s].locId) = 0
       /\ tasks[s].playerId \notin activeLocationRequests']_vars

\* a lookup nobody answered has returned the sentinel and is cleaned up
C5_Witness ==
  /\ lastOut.type = "response"
  /\ lastOut.locId # 0
  /\ lastOut.posted = NoPos
  /\ lastOut.payload = LocationPayload(Sentinel)
  /\ locationResponseQueue = <<>>
  /\ activeLocationRequests = {}

\* C6: every lookup that waits returns, whatever the consumer posts or
\* fails to post.
C6_LookupReturns ==
  \A s \in Slots : (tasks[s].pc = "locwait") ~> (tasks[s].pc = "idle")

\* a lookup returned although the consumer posted only responses that name
\* other requestIds
C6_Witness ==
  /\ lastOut.type = "response"
  /\ lastOut.locId # 0
  /\ Len(locationResponseQueue) = MaxResponses
  /\ \A i \in 1..Len(locationResponseQueue) :
       locationResponseQueue[i].requestId # lastOut.locId

\* C7 as stated: a lookup for which a response was posted while it waited,
\* before its deadline, returns that response's x, y, z, and afterwards
\* neither list has an entry with its requestId and its subject is not in
\* flight.
C7_PostedResponseReturned ==
  [][\A s \in Slots : (LookupReturns(s) /\ tasks[s].posted # NoPos) =>
       /\ lastOut'.payload = LookupReply(tasks[s].action, tasks[s].posted)
       /\ FindIndex(locationRequestQueue', tasks[s].locId) = 0
       /\ FindIndex(locationResponseQueue', tasks[s].locId) = 0
       /\ tasks[s].playerId \notin activeLocationRequests']_vars

\* the waiting lookup that put the pending entry e in the list
IsOwner(s, e) == tasks[s].pc = "locwait" /\ tasks[s].locId = e.requestId

\* C8: the pending list has at most one entry per subject: every entry
\* belongs to a waiting lookup whose subject is in flight, and two entries
\* never belong to lookups of one subject.
C8_OnePendingPerSubject ==
  /\ \A i \in 1..Len(locationRequestQueue) :
       \E s \in Slots : /\ IsOwner(s, locationRequestQueue[i])
                        /\ tasks[s].playerId \in activeLocationRequests
  /\ \A i, j \in 1..Len(locationRequestQueue) : \A s, t \in Slots :
       (/\ i # j
        /\ IsOwner(s, locationRequestQueue[i])
        /\ IsOwner(t, locationRequestQueue[j])) => tasks[s].playerId # tasks[t].playerId

\* lookups of two subjects are pending at once
C8_Witness ==
  /\ Len(locationRequestQueue) = 2
  /\ activeLocationRequests = Players

\* C9: a lookup requested for a subject that is in flight returns the
\* sentinel in the same step, appends nothing to the pending list, and
\* leaves the first lookup, the response list and the in-flight set alone.
C9_DuplicateLookupRejected ==
  [][\A r \in ReqIds, a \in LookupActions : \A args \in ArgsOf(a) :
       (/\ Outcome(a, args).kind = "lookup"
        /\ args.kind = "object"
        /\ args.gameId \in activeLocationRequests
        /\ handleTakaroRequest(r, a, args)) =>
          /\ lastOut'.type = "response"
          /\ lastOut'.requestId = r
          /\ lastOut'.payload = LookupReply(a, Sentinel)
          /\ tasks' = tasks
          /\ UNCHANGED <<locationRequestQueue, locationResponseQueue,
                         activeLocationRequests>>]_vars

\* a second lookup for a subject was turned away while the first still waits
C9_Witness ==
  /\ lastOut.type = "response"
  /\ lastOut.locId = 0
  /\ lastOut.subject \in activeLocationRequests
  /\ lastOut.payload = LocationPayload(Sentinel)
  /\ \E s \in Slots : tasks[s].pc = "locwait" /\ tasks[s].playerId = lastOut.subject
  /\ Len(locationRequestQueue) = 1

\* C10 as stated: every pending entry and every posted response entry is
\* eventually removed.  Entries leave the lists only when a waiting lookup
\* returns, and a later lookup has a requestId of its own, so in the form a
\* finite run decides: when no lookup is waiting, both lists are empty.
C10_EntriesRemoved ==
  (\A s \in Slots : tasks[s].pc # "locwait") =>
     (locationRequestQueue = <<>> /\ locationResponseQueue = <<>>)

\* C11: GET /location-queue answers with a copy of the whole pending list
\* and changes nothing: the pending list, the response list and the
\* in-flight set are as before, and the answer holds the entry of every
\* lookup that is waiting at that moment.
C11_LocationPollKeepsQueue ==
  [][GetLocationQueue =>
       /\ relay'.requests = locationRequestQueue
       /\ UNCHANGED <<locationRequestQueue, locationResponseQueue,
                      activeLocationRequests, tasks>>
       /\ \A s \in Slots : tasks[s].pc = "locwait" =>
            FindIndex(relay'.requests, tasks[s].locId) # 0]_vars

\* a lookup that has waited through a poll is still in the pending list,
\* and the last poll returned its entry
C11_Witness ==
  /\ "location-queue" \in relay.polled
  /\ relay.requests # <<>>
  /\ relay.requests = locationRequestQueue
  /\ \E s \in Slots : /\ tasks[s].pc = "locwait"
                      /\ tasks[s].elapsed > 0
                      /\ FindIndex(relay.requests, tasks[s].locId) # 0

\* every teleport ever enqueued, in enqueue order: those returned by a GET,
\* then those still queued
EnqueuedTeleports == relay.delivered \o teleportQueue

\* C12: GET /teleport-queue answers with exactly the queue as it stands, in
\* order, and leaves it empty; the queue otherwise only grows by one item at
\* its end; so the teleports returned so far followed by those still queued
\* are the enqueued teleports, each once and in enqueue order.
C12_TeleportPollPopsAll ==
  /\ [](\A i \in 1..Len(EnqueuedTeleports) : EnqueuedTeleports[i].timestamp = i)
  /\ [][GetTeleportQueue =>
          /\ relay'.teleports = teleportQueue
          /\ teleportQueue' = <<>>]_vars
  /\ [][teleportQueue' # teleportQueue =>
          \/ GetTeleportQueue
          \/ /\ Len(teleportQueue') = Len(teleportQueue) + 1
             /\ SubSeq(teleportQueue', 1, Len(teleportQueue)) = teleportQueue]_vars

\* a GET returned teleports, and the GET after it, with no enqueue in
\* between, returned an empty list
C12_Witness ==
  /\ "teleport-queue" \in relay.polled
  /\ Len(relay.delivered) > 0
  /\ relay.teleports = <<>>
  /\ teleportQueue = <<>>

\* a reconciliation: handleGetPlayers(true) got snap while still Ready
Reconciles(snap) == PollDone(snap) /\ isConnectedToTakaro

\* how many events of one type about one player a bag of events holds
EventNames == Names \cup Players \cup {NoRecord}
EventCount(events, eventType, gameId) ==
  SumOver([n \in EventNames |-> CopiesIn(PlayerEvent(eventType, gameId, n), events)],
          EventNames)

Closes == takaroWs.readyState \in {"CONNECTING", "OPEN"} /\ takaroWs'.readyState = "CLOSED"
Opens == takaroWs.readyState = "CONNECTING" /\ takaroWs'.readyState = "OPEN"

\* C15: after every close of the socket a new connection attempt is
\* started, whatever the number of attempts that have failed in a row,
\* provided an armed reconnect timer fires.
C15_NeverGivesUp ==
  \A n \in 1..MaxReconnectSockets :
    (takaroWs = [id |-> n, readyState |-> "CLOSED"])
      ~> (takaroWs = [id |-> n + 1, readyState |-> "CONNECTING"])

\* a further attempt has been started after four attempts failed in a row
C15_Witness ==
  /\ takaroWs.readyState = "CONNECTING"
  /\ reconnectAttempts = 4
  /\ takaroWs.id > 4
  /\ reconnectTimeout.pending = 0

\* C16: a close event, whether the socket was connecting, open but not
\* identified, or Ready, leaves isConnectedToTakaro false and exactly one
\* reconnect timer armed.
C16_CloseSchedulesOneReconnect ==
  [][Closes => /\ isConnectedToTakaro' = FALSE
               /\ reconnectTimeout'.pending = 1]_vars

\* the socket of a Ready connection has closed: a response went out on it
\* after the handshake, the flag is down and one timer is armed
C16_Witness ==
  /\ takaroWs.readyState = "CLOSED"
  /\ wire = [ws |-> takaroWs.id, first |-> "identify", identifies |-> 1]
  /\ lastOut.type = "response"
  /\ lastOut.ws = takaroWs.id
  /\ ~isConnectedToTakaro
  /\ reconnectTimeout.pending = 1

\* C17: reconnectAttempts is never negative, grows by exactly 1 with every
\* scheduled reconnect, is 0 after every open, and changes in no other
\* step; so nothing but an open sets it to 0.
C17_AttemptsCounter ==
  /\ [](reconnectAttempts >= 0)
  /\ [][/\ Closes => reconnectAttempts' = reconnectAttempts + 1
        /\ reconnectTimeout' # reconnectTimeout /\ reconnectTimeout'.pending > 0
             => reconnectAttempts' = reconnectAttempts + 1
        /\ Opens => reconnectAttempts' = 0
        /\ reconnectAttempts' # reconnectAttempts => Closes \/ Opens]_vars

\* an open has reset the counter after two attempts failed in a row
C17_Witness ==
  /\ takaroWs.readyState = "OPEN"
  /\ reconnectAttempts = 0
  /\ reconnectTimeout.exponentialDelay = 2 * BASE_RECONNECT_DELAY

\* C18: the n-th reconnect scheduled in a row is delayed, before jitter, by
\* min(60000, 3000 * 2^(n-1)) ms, which is at least the delay of the one
\* before it and at most 60000 ms; the jitter is at least 0 and at most a
\* quarter of that delay.
C18_BackoffDelay ==
  [][Closes =>
       LET n == reconnectAttempts'
           delay == reconnectTimeout'.exponentialDelay
       IN /\ n >= 1
          /\ delay = Min(60000, 3000 * 2^(n - 1))
          /\ delay <= 60000
          /\ n > 1 => delay >= reconnectTimeout.exponentialDelay
          /\ reconnectTimeout'.jitter >= 0
          /\ 4 * reconnectTimeout'.jitter <= delay]_vars

\* the backoff has reached its ceiling, with jitter on top
C18_Witness ==
  /\ reconnectAttempts >= 6
  /\ reconnectTimeout.pending = 1
  /\ reconnectTimeout.exponentialDelay = MAX_RECONNECT_DELAY
  /\ reconnectTimeout.jitter > 0

\* C20: every open sets reconnectAttempts to 0 and sends an identify
\* message with the identity token, and with the registration token when
\* one is configured, on the socket that opened; on an open socket the
\* first message written is that identify, and it is the only identify.
C20_OpenIdentifiesFirst ==
  /\ [][Opens =>
          /\ reconnectAttempts' = 0
          /\ lastOut'.type = "identify"
          /\ lastOut'.transmitted
          /\ lastOut'.ws = takaroWs'.id
          /\ lastOut'.payload.val =
               (IF REGISTRATION_TOKEN = "" THEN <<IDENTITY_TOKEN>>
                                           ELSE <<IDENTITY_TOKEN, REGISTRATION_TOKEN>>)
          /\ wire' = [ws |-> takaroWs'.id, first |-> "identify", identifies |-> 1]]_vars
  /\ [](takaroWs.readyState = "OPEN" =>
          wire = [ws |-> takaroWs.id, first |-> "identify", identifies |-> 1])

\* on a socket opened by a reconnect, with a registration token configured,
\* a response has gone out after the identify
C20_Witness ==
  /\ takaroWs.readyState = "OPEN"
  /\ takaroWs.id > 1
  /\ REGISTRATION_TOKEN # ""
  /\ wire = [ws |-> takaroWs.id, first |-> "identify", identifies |-> 1]
  /\ lastOut.type = "response"
  /\ lastOut.transmitted
  /\ lastOut.ws = takaroWs.id

\* C19: connectToTakaro called while the socket is connecting or open is a
\* no-op: no new socket, and the current socket, the Ready flag and the
\* reconnect counter stay as they are.
C19_ConnectIdempotent ==
  [][(ConnectCall /\ takaroWs.readyState \in {"CONNECTING", "OPEN"}) =>
       UNCHANGED <<takaroWs, isConnectedToTakaro, reconnectAttempts>>]_vars

\* C21: the Ready flag rises only in a step that handles an
\* identifyResponse without error; an identifyResponse with an error, a
\* frame of any other kind (connected, ping, error, unknown, unparsable) and
\* a request leave the flag as it is.
C21_ReadyOnlyByAcknowledgement ==
  [][/\ (isConnectedToTakaro' /\ ~isConnectedToTakaro) => handleIdentifyResponse(FALSE)
     /\ handleIdentifyResponse(TRUE) => UNCHANGED isConnectedToTakaro
     /\ \A frame \in Frames : OnMessage(frame) => UNCHANGED isConnectedToTakaro
     /\ channel'.frames # channel.frames => UNCHANGED isConnectedToTakaro
     /\ requestsSeen' # requestsSeen => UNCHANGED isConnectedToTakaro]_vars

\* the first socket is open and has received a ping, a frame that was
\* dropped and a request, and the connection is still not Ready
C21_Witness ==
  /\ takaroWs = [id |-> 1, readyState |-> "OPEN"]
  /\ ~isConnectedToTakaro
  /\ channel.pings > 0
  /\ channel.dropped > 0
  /\ requestsSeen > 0

\* C22: a message handed to sendToTakaro while the connection is not Ready
\* is not transmitted.
C22_SendRequiresReady ==
  [][(/\ lastOut' # lastOut
      /\ lastOut'.type \in {"response", "pong", "gameEvent"}
      /\ ~isConnectedToTakaro) => ~lastOut'.transmitted]_vars

\* a frame that does not parse, or whose type the switch does not know
Malformed(frame) == Parse(frame).thrown # "" \/ Parse(frame).type = UnknownType

\* C23: a frame that is not JSON, is no object, or has an unknown type is
\* dropped: the step sends nothing and leaves the socket, the Ready flag,
\* the reconnect state, the queues, the caches and the suspended handlers
\* unchanged, so the socket stays open for the frames that follow.
C23_MalformedFrameDropped ==
  [][(\/ channel'.dropped # channel.dropped
      \/ \E frame \in Frames : Malformed(frame) /\ OnMessage(frame)) =>
       /\ channel'.dropped = channel.dropped + 1
       /\ takaroWs'.readyState = "OPEN"
       /\ UNCHANGED <<connVars, outVars, queueVars, playerCache, fetched, presenceVars,
                      tasks, countVars, relay>>]_vars

\* after a frame was dropped a request has arrived and its response has
\* gone out on the same socket
C23_Witness ==
  /\ channel.dropped > 0
  /\ requestsSeen > channel.droppedAt
  /\ metrics.errors > 0
  /\ lastOut.type = "response"
  /\ lastOut.transmitted
  /\ takaroWs = [id |-> 1, readyState |-> "OPEN"]

\* C24: every ping received is answered in the same step with exactly one
\* pong, transmitted on the socket the ping came in on, and a pong goes
\* out in no other step; so as many pongs have been sent as pings received.
C24_PingAnsweredByPong ==
  /\ [](channel.pongs = channel.pings)
  /\ [][channel'.pings # channel.pings =>
          /\ channel'.pings = channel.pings + 1
          /\ channel'.pongs = channel.pongs + 1
          /\ lastOut'.type = "pong"
          /\ lastOut'.transmitted
          /\ lastOut'.ws = takaroWs.id
          /\ wire'.ws = takaroWs.id
          /\ UNCHANGED <<takaroWs, sent, answered, metrics>>]_vars
  /\ [][(\/ channel'.pongs # channel.pongs
         \/ (lastOut'.type = "pong" /\ lastOut' # lastOut)) =>
          channel'.pings = channel.pings + 1]_vars

\* two pings have been answered, the second on a socket opened by a
\* reconnect
C24_Witness ==
  /\ channel.pings = 2
  /\ channel.pongs = 2
  /\ lastOut.type = "pong"
  /\ lastOut.transmitted
  /\ lastOut.ws = 2
  /\ takaroWs = [id |-> 2, readyState |-> "OPEN"]

\* the lookups that are suspended in their wait loop
Waiting == {s \in Slots : tasks[s].pc = "locwait"}

\* C25: while a lookup is suspended a request that arrives is dispatched
\* at once; the response of another request goes out in the step in which
\* its handler completes, whether it arrived before or after the lookup's
\* request, and that step leaves the suspended lookup as it is.
C25_CompletionOrder ==
  /\ [](\A s \in Waiting :
          (takaroWs.readyState = "OPEN" /\ \E t \in Slots : tasks[t].pc = "idle") =>
            \A args \in ArgsOf("getPlayers") :
              ENABLED handleTakaroRequest(LookupRequestId, "getPlayers", args))
  /\ [][\A s \in Waiting :
          /\ requestsSeen' # requestsSeen =>
               /\ tasks'[s] = tasks[s]
               /\ \/ lastOut'.seq = requestsSeen' /\ lastOut'.type = "response"
                  \/ \E t \in Slots \ {s} : /\ tasks'[t].seq = requestsSeen'
                                            /\ tasks'[t].pc # "idle"
          /\ \A t \in Slots \ {s} :
               (tasks[t].pc = "fetchPlayers" /\ tasks'[t].pc = "idle") =>
                 /\ tasks'[s] = tasks[s]
                 /\ lastOut'.type = "response"
                 /\ lastOut'.seq = tasks[t].seq
                 /\ lastOut'.transmitted = (takaroWs.readyState = "OPEN")
                 /\ answered'[tasks[t].requestId] = answered[tasks[t].requestId] + 1]_vars

\* a getPlayers request that arrived after a lookup's request has been
\* answered while the lookup is still waiting
C25_Witness ==
  \E s \in Waiting :
    /\ tasks[s].elapsed > 0
    /\ lastOut.type = "response"
    /\ lastOut.action = "getPlayers"
    /\ lastOut.transmitted
    /\ lastOut.seq > tasks[s].seq

\* the socket a suspended handler's request arrived on has closed
ClosedUnder(s) ==
  /\ tasks[s].pc # "idle"
  /\ \/ tasks[s].ws # takaroWs.id
     \/ takaroWs.readyState = "CLOSED"

\* the handler in slot s completes in this step
Completes(s) == tasks[s].pc # "idle" /\ tasks'[s].pc = "idle"

HoldsRecord(cache, name) ==
  \E p \in Players : cache[p] # NoRecord /\ ToLowerCase(cache[p]) = ToLowerCase(name)

\* the player events of the message last handed to sendToTakaro
EventsOut(msg) ==
  IF msg.type = "gameEvent" THEN BagToSet(msg.payload.val[1]) ELSE {}

\* C27: a connect, disconnect or death post whose name the player directory
\* holds no record of sends nothing, and every player event transmitted
\* carries the gameId and the name of a record of the player directory
C27_EventsFromDirectory ==
  [][/\ (chat'.posts # chat.posts /\ ~HoldsRecord(playerCache', chat'.last.name))
        => /\ UNCHANGED <<lastOut, wire>>
           /\ isConnectedToTakaro => chat'.dropped = chat.dropped + 1
     /\ (lastOut' # lastOut /\ lastOut'.transmitted)
        => \A e \in EventsOut(lastOut') :
             /\ e.gameId \in Players
             /\ playerCache'[e.gameId] # NoRecord
             /\ e.name = playerCache'[e.gameId]]_vars

\* a death post for an unknown name has been dropped after a connect post
\* was forwarded
C27_Witness ==
  /\ chat.last = [event |-> "player_death", name |-> "Nobody"]
  /\ chat.dropped = 1
  /\ chat.posts = 2
  /\ lastOut.transmitted
  /\ \E e \in EventsOut(lastOut) : e.type = "player-connected"

\* C28: the player directory holds for every id the record of the latest
\* player list that listed it, and none for an id never listed: a fetch
\* upserts every player it lists, and no step removes or alters a record
\* otherwise
C28_DirectoryKeepsLatest ==
  [][\A p \in Players :
       /\ fetched'[p] # NoRecord => playerCache'[p] = fetched'[p]
       /\ playerCache'[p] # playerCache[p]
            => fetched'[p] # NoRecord /\ playerCache'[p] = fetched'[p]
       /\ playerCache[p] # NoRecord => playerCache'[p] # NoRecord]_vars

\* p1 was announced as Aria, was listed again as Bree, and is kept though
\* the latest list has p2 only
C28_Witness ==
  /\ \E e \in EventsOut(lastOut) : e.gameId = "p1" /\ e.name = "Aria"
  /\ playerCache["p1"] = "Bree"
  /\ fetched["p1"] = NoRecord
  /\ fetched["p2"] # NoRecord

\* a handleGetPlayers() made by a request handler or by the connect post
\* returns in this step
FetchPcs == {"fetchPlayers", "teleportFetch"}
OtherFetchReturns ==
  \/ \E s \in Slots : tasks[s].pc \in FetchPcs /\ tasks'[s].pc # tasks[s].pc
  \/ chat'.posts # chat.posts

\* C29: lastKnownPlayers and the first-poll flag change only in a step of
\* the presence poll; a player list fetched for a request or for a connect
\* post may change the player directory but leaves both as they are and
\* reconciles nothing: a request sends its response only, the connect post
\* the one connect event of the player it names
C29_PresenceOnlyByPoll ==
  [][/\ (lastKnownPlayers' # lastKnownPlayers
         \/ hasInitializedPlayerList' # hasInitializedPlayerList)
        => lastPoll'.seq = lastPoll.seq + 1
     /\ OtherFetchReturns
        => /\ UNCHANGED <<lastKnownPlayers, hasInitializedPlayerList, lastPoll>>
           /\ lastOut' # lastOut
                => \A e \in EventsOut(lastOut') :
                     /\ chat'.posts # chat.posts
                     /\ e.type = "player-connected"
                     /\ ToLowerCase(e.name) = ToLowerCase(chat'.last.name)]_vars

\* after the first poll found nobody, a getPlayers request has listed p1
\* and p2: both are in the directory, neither is in the presence set
C29_Witness ==
  /\ hasInitializedPlayerList
  /\ lastKnownPlayers = {}
  /\ lastPoll.seq = 1
  /\ Online(fetched) = Players
  /\ Online(playerCache) = Players
  /\ lastOut.type = "response"
  /\ lastOut.payload.tag = "players"

\* the identity token or the configuration file is missing
CredentialsMissing == startup.identityToken = "" \/ ~startup.configFile

\* C30: with the credentials missing no control-channel socket is ever
\* created and no identify message is ever sent
C30_NoSocketWithoutCredentials ==
  CredentialsMissing
    => /\ takaroWs.id = 0
       /\ wire.identifies = 0
       /\ lastOut.type # "identify"

\* the first entry of the response list posted under a requestId
FirstPosted(q, requestId) ==
  CHOOSE i \in 1..Len(q) :
    /\ q[i].requestId = requestId
    /\ \A j \in 1..(i - 1) : q[j].requestId # requestId

\* lookup s takes a response in this step
TakesResponse(s) ==
  /\ tasks[s].pc = "locwait"
  /\ tasks'[s].pc # "locwait"
  /\ locationResponseQueue' # locationResponseQueue

\* C31: of two responses posted under one requestId the lookup returns the
\* one posted first and removes only that one; the response list loses an
\* entry in no other way, and a lookup that starts finds no entry under its
\* fresh requestId, so the second response is never returned to anyone
C31_FirstResponseWins ==
  [][/\ \A s \in Slots : TakesResponse(s) =>
          /\ \E i \in 1..Len(locationResponseQueue) :
               locationResponseQueue[i].requestId = tasks[s].locId
          /\ LET i == FirstPosted(locationResponseQueue, tasks[s].locId)
             IN /\ lastOut'.locId = tasks[s].locId
                /\ lastOut'.payload =
                     LookupReply(tasks[s].action, locationResponseQueue[i].pos)
                /\ locationResponseQueue' =
                     SubSeq(locationResponseQueue, 1, i - 1)
                       \o SubSeq(locationResponseQueue, i + 1,
                                 Len(locationResponseQueue))
     /\ Len(locationResponseQueue') < Len(locationResponseQueue)
          => \E s \in Slots : TakesResponse(s)
     /\ \A s \in Slots :
          (tasks[s].pc # "locwait" /\ tasks'[s].pc = "locwait")
            => \A i \in 1..Len(locationResponseQueue') :
                 locationResponseQueue'[i].requestId # tasks'[s].locId]_vars

\* a lookup has returned the position posted first while the sentinel
\* posted second under the same requestId is left in the response list,
\* and no lookup waits under that requestId
C31_Witness ==
  /\ lastOut.type = "response"
  /\ lastOut.payload = LocationPayload(AnswerPosition)
  /\ \E i \in 1..Len(locationResponseQueue) :
       /\ locationResponseQueue[i].requestId = lastOut.locId
       /\ locationResponseQueue[i].pos = Sentinel
  /\ \A s \in Slots : tasks[s].pc = "locwait" => tasks[s].locId # lastOut.locId

\* the results of handleTeleportPlayer that carry success: true
Success(payload) ==
  payload \in {ResultPayload("Teleporting to coordinates"),
               ResultPayload("Teleporting to player")}

\* a teleportPlayer request is answered in this step
TeleportAnswered ==
  /\ lastOut' # lastOut
  /\ lastOut'.type = "response"
  /\ lastOut'.action = "teleportPlayer"

\* C32: a teleportPlayer request is answered with success: true exactly
\* when its handler has appended one item to the teleport queue; every other
\* answer leaves the queue as it was, and nothing else appends to it
C32_OptimisticAcknowledgement ==
  [][/\ TeleportAnswered =>
          IF Success(lastOut'.payload)
            THEN /\ Len(teleportQueue') = Len(teleportQueue) + 1
                 /\ SubSeq(teleportQueue', 1, Len(teleportQueue)) = teleportQueue
            ELSE teleportQueue' = teleportQueue
     /\ Len(teleportQueue') > Len(teleportQueue)
          => TeleportAnswered /\ Success(lastOut'.payload)]_vars

\* one teleport was acknowledged and queued, and a later one was refused
\* for a target that is not online: the queue still holds the one item
C32_Witness ==
  /\ lastOut.type = "response"
  /\ lastOut.action = "teleportPlayer"
  /\ lastOut.payload = ResultPayload("Target player not found online")
  /\ Len(teleportQueue) = 1
  /\ relay.delivered = <<>>

\* the pending entries that belong to a waiting lookup for subject p
PendingFor(p) ==
  {i \in 1..Len(locationRequestQueue) :
     \E s \in Slots : /\ IsOwner(s, locationRequestQueue[i])
                      /\ tasks[s].playerId = p}

\* C33: between any two tasks of the event loop a subject is in flight if
\* and only if exactly one pending entry belongs to a lookup for it; with an
\* empty pending list nobody is in flight, and the list has no entry
\* besides those
C33_InFlightIffPending ==
  /\ \A p \in Players : (p \in activeLocationRequests) <=> Cardinality(PendingFor(p)) = 1
  /\ activeLocationRequests \subseteq Players
  /\ Len(locationRequestQueue) = Cardinality(activeLocationRequests)
  /\ locationRequestQueue = <<>> => activeLocationRequests = {}

\* the lookup for p2 has ended while the one for p1 still waits: p1 alone
\* is in flight, with the one pending entry
C33_Witness ==
  /\ activeLocationRequests = {"p1"}
  /\ Len(locationRequestQueue) = 1
  /\ lastOut.type = "response"
  /\ lastOut.subject = "p2"
  /\ lastOut.locId # 0
  /\ \E s \in Slots : tasks[s].pc = "locwait" /\ tasks[s].playerId = "p1"

\* C34: a socket is created only once the one before it has closed, so at
\* most one socket is connecting or open; at most one reconnect timer is
\* pending, and none while the current socket is connecting or open
C34_OneSocketOneTimer ==
  [][/\ takaroWs'.id # takaroWs.id
          => /\ takaroWs.readyState = "CLOSED"
             /\ takaroWs' = [id |-> takaroWs.id + 1, readyState |-> "CONNECTING"]
     /\ reconnectTimeout'.pending <= 1
     /\ takaroWs'.readyState \in {"CONNECTING", "OPEN"}
          => reconnectTimeout'.pending = 0]_vars

\* the third socket is open after two closes, each followed by its timer:
\* no timer is pending
C34_Witness ==
  /\ takaroWs = [id |-> 3, readyState |-> "OPEN"]
  /\ reconnectTimeout.pending = 0
  /\ reconnectTimeout.exponentialDelay > 0
  /\ isConnectedToTakaro

\* C35: while the connection is marked Ready the current socket is open:
\* it is neither still connecting nor closed
C35_ReadyOnlyWhileOpen ==
  isConnectedToTakaro => takaroWs.readyState = "OPEN"

\* the second socket has been identified after the first one, Ready too,
\* had closed
C35_Witness ==
  /\ isConnectedToTakaro
  /\ takaroWs = [id |-> 2, readyState |-> "OPEN"]
  /\ wire = [ws |-> 2, first |-> "identify", identifies |-> 1]
  /\ reconnectAttempts = 0
  /\ metrics.responsesSent > 0

\* C36: a gameEvent message is transmitted only while the connection is
\* Ready
C36_EventsOnlyWhileReady ==
  [][(lastOut' # lastOut /\ lastOut'.type = "gameEvent" /\ lastOut'.transmitted)
       => isConnectedToTakaro /\ isConnectedToTakaro']_vars

\* C37: a response that is transmitted goes out on the socket on which its
\* request arrived
C37_ResponseOnArrivalSocket ==
  [][(lastOut' # lastOut /\ lastOut'.type = "response" /\ lastOut'.transmitted)
       => lastOut'.ws = lastOut'.arrivedOn]_vars

\* C38: a tick of the presence poll while the connection is not Ready
\* starts no fetch, and a poll whose fetch fails reconciles nothing: both
\* send no event and leave lastKnownPlayers, the first-poll flag and the
\* player directory as they were
C38_OutageIsSilent ==
  [][((PollTimer /\ ~isConnectedToTakaro) \/ PollFailed)
       => /\ UNCHANGED <<lastKnownPlayers, hasInitializedPlayerList, lastPoll,
                         playerCache, lastOut, wire, sent, metrics>>
          /\ pollsInFlight' <= pollsInFlight]_vars

\* both players are known from the one reconciliation that has run; of the
\* two ticks so far the other was skipped or its fetch failed, and the
\* presence set is intact
C38_Witness ==
  /\ pollCount = 2
  /\ pollsInFlight = 0
  /\ lastPoll.seq = 1
  /\ lastKnownPlayers = Players
  /\ isConnectedToTakaro
  /\ takaroWs = [id |-> 1, readyState |-> "OPEN"]
  /\ lastOut.type = "identify"

\* C39: every id of the presence set has a record in the player directory
C39_PresenceInDirectory ==
  \A p \in lastKnownPlayers : p \in Players /\ playerCache[p] # NoRecord

\* p1 is present and p2, seen by an earlier poll, has left: the reconciler
\* has announced the disconnect under the name the directory still holds
C39_Witness ==
  /\ lastKnownPlayers = {"p1"}
  /\ playerCache["p2"] # NoRecord
  /\ lastPoll.seq > 1
  /\ CopiesIn(PlayerEvent("player-disconnected", "p2", playerCache["p2"]),
              lastPoll.events) = 1

\* C40: a lookup requested without a player id, or for an id the player
\* directory has no record of, returns the sentinel in the same step and
\* leaves the pending list, the response list, the in-flight set and the
\* waiting lookups as they were
C40_UnknownSubjectRejected ==
  [][\A r \in ReqIds, a \in LookupActions : \A args \in ArgsOf(a) :
       (/\ Outcome(a, args).kind = "lookup"
        /\ args.kind = "object"
        /\ (args.gameId = NoId \/ playerCache[args.gameId] = NoRecord)
        /\ handleTakaroRequest(r, a, args)) =>
          /\ lastOut'.type = "response"
          /\ lastOut'.requestId = r
          /\ lastOut'.seq = requestsSeen + 1
          /\ lastOut'.payload = LookupReply(a, Sentinel)
          /\ UNCHANGED <<locationRequestQueue, locationResponseQueue,
                         activeLocationRequests, nextLocId, tasks>>]_vars

\* a lookup for p2, of whom the directory has no record, was answered with
\* the sentinel while the lookup for p1 goes on waiting with its entry
C40_Witness ==
  /\ lastOut.type = "response"
  /\ lastOut.action = "getPlayerLocation"
  /\ lastOut.subject = "p2"
  /\ lastOut.locId = 0
  /\ lastOut.payload = LocationPayload(Sentinel)
  /\ playerCache["p2"] = NoRecord
  /\ activeLocationRequests = {"p1"}
  /\ Len(locationRequestQueue) = 1

====
